---- MODULE Spec2Model ----
(***************************************************************************)
(* A model of marty, a terminal Matrix client: the encrypted per-room      *)
(* message logs (storage.rs), the start-up synchronisation and backfill    *)
(* of the protocol task (matrix.rs) and the event processing of the UI     *)
(* loop (main.rs).                                                         *)
(*                                                                         *)
(* Conventions.  Option<T> is a sequence of length 0 (None) or 1 (Some).   *)
(* io::Result<T> is a record [ok |-> TRUE, val |-> v] or                   *)
(* [ok |-> FALSE, err |-> kind].  A byte string is a sequence of byte      *)
(* records; AES-256-GCM and PBKDF2 are symbolic: a ciphertext byte names   *)
(* the key, nonce and plaintext byte it was made from, so decryption with  *)
(* another key fails the tag check.                                        *)
(***************************************************************************)
EXTENDS Integers, Sequences, FiniteSets, TLC

(* ---------------------------------------------------------------------- *)
(* Bounds of the model                                                     *)
(* ---------------------------------------------------------------------- *)
MaxTs == 2
MaxOps == 3
MaxMsgLen == 2
MaxServerTs == 3
MaxEvents == 2
MaxUiTs == 2
MaxUiEvents == 3
MaxCommands == 2
MaxSends == 2
MaxAccounts == 2
MaxLive == 2
MaxReceiptIds == 2
MaxIdLen == 4

(* ---------------------------------------------------------------------- *)
(* Program constants                                                       *)
(* ---------------------------------------------------------------------- *)
SALT_LEN == 16
NONCE_LEN == 12
PBKDF2_ITERS == 100000
PageLimit == 50

(* ---------------------------------------------------------------------- *)
(* Values                                                                  *)
(* ---------------------------------------------------------------------- *)
None == << >>
Some(x) == << x >>

Ok(v) == [ok |-> TRUE, val |-> v]
Err(kind) == [ok |-> FALSE, err |-> kind]

Passphrases == {"hunter2", "wrong"}

R1 == << "!", "a", ":", "x" >>
R2 == << "!", "b", ":", "x" >>
RoomIds == {R1, R2}

EventIds == {"$e1", "$e2"}
StoreEventIds == {"$e1"}

\* values OsRng.fill_bytes can produce, one byte value repeated
RngSeeds == {0, 1}
\* the draws the room-log writes are explored with
StoreSeeds == {0}

RawByte(v) == [b |-> "raw", v |-> v]
RandomBytes(len, seed) == [i \in 1..len |-> RawByte(seed)]

StoredMessage(ts, sender, body, event_id, reply_to, attachment) ==
    [timestamp |-> ts, sender |-> sender, body |-> body,
     event_id |-> event_id, reply_to |-> reply_to,
     attachment_path |-> IF attachment = None THEN None ELSE Some(attachment[1].path),
     attachment_name |-> IF attachment = None THEN None ELSE Some(attachment[1].name),
     attachment_kind |-> IF attachment = None THEN None ELSE Some(attachment[1].kind)]

\* the records the storage API is exercised with
TextRecord(ts, event_id) == StoredMessage(ts, "@a:x", "hi", event_id, None, None)
Records == {TextRecord(ts, eid) : ts \in 1..MaxTs, eid \in {None} \cup {Some(e) : e \in StoreEventIds}}

(* ---------------------------------------------------------------------- *)
(* storage.rs: key derivation and authenticated encryption                *)
(* ---------------------------------------------------------------------- *)
pbkdf2_hmac(passphrase, salt, iters) == [pass |-> passphrase, salt |-> salt, iters |-> iters]

AeadTag(key, nonce, plaintext) == [b |-> "tag", k |-> key, n |-> nonce, m |-> plaintext]

AeadEncrypt(key, nonce, plaintext) ==
    [i \in 1..Len(plaintext) |-> [b |-> "ct", k |-> key, n |-> nonce, i |-> i, p |-> plaintext[i]]]
        \o << AeadTag(key, nonce, plaintext) >>

AeadDecrypt(key, nonce, ciphertext) ==
    IF Len(ciphertext) < 1 THEN Err("Other")
    ELSE LET n == Len(ciphertext) - 1
             bodyOk == \A i \in 1..n :
                          /\ ciphertext[i].b = "ct"
                          /\ ciphertext[i].k = key
                          /\ ciphertext[i].n = nonce
                          /\ ciphertext[i].i = i
             plaintext == [i \in 1..n |-> ciphertext[i].p]
         IN  IF bodyOk /\ ciphertext[n + 1] = AeadTag(key, nonce, plaintext)
             THEN Ok(plaintext)
             ELSE Err("Other")

encrypt_bytes(passphrase, salt, nonce_bytes, plaintext) ==
    AeadEncrypt(pbkdf2_hmac(passphrase, salt, PBKDF2_ITERS), nonce_bytes, plaintext)

decrypt_bytes(passphrase, salt, nonce_bytes, ciphertext) ==
    AeadDecrypt(pbkdf2_hmac(passphrase, salt, PBKDF2_ITERS), nonce_bytes, ciphertext)

\* the bytes write_encrypted hands to fs::write
write_encrypted(passphrase, plaintext, saltSeed, nonceSeed) ==
    LET salt == RandomBytes(SALT_LEN, saltSeed)
        nonce_bytes == RandomBytes(NONCE_LEN, nonceSeed)
        ciphertext == AeadEncrypt(pbkdf2_hmac(passphrase, salt, PBKDF2_ITERS), nonce_bytes, plaintext)
    IN  salt \o nonce_bytes \o ciphertext

\* read_encrypted splitting the nonce off at the salt length
read_encrypted_bad_split(data, passphrase) ==
    IF Len(data) < SALT_LEN + NONCE_LEN THEN Err("InvalidData")
    ELSE LET salt == SubSeq(data, 1, SALT_LEN)
             rest == SubSeq(data, SALT_LEN + 1, Len(data))
             nonce_bytes == SubSeq(rest, 1, SALT_LEN)
             ciphertext == SubSeq(rest, SALT_LEN + 1, Len(rest))
         IN  decrypt_bytes(passphrase, salt, nonce_bytes, ciphertext)

\* read_encrypted applied to the bytes fs::read returned
read_encrypted(data, passphrase) ==
    IF Len(data) < SALT_LEN + NONCE_LEN THEN Err("InvalidData")
    ELSE LET salt == SubSeq(data, 1, SALT_LEN)
             rest == SubSeq(data, SALT_LEN + 1, Len(data))
             nonce_bytes == SubSeq(rest, 1, NONCE_LEN)
             ciphertext == SubSeq(rest, NONCE_LEN + 1, Len(rest))
         IN  decrypt_bytes(passphrase, salt, nonce_bytes, ciphertext)

(* ---------------------------------------------------------------------- *)
(* storage.rs: the embedded (base64) envelope                              *)
(* ---------------------------------------------------------------------- *)
Min(a, b) == IF a < b THEN a ELSE b

\* BASE64_STANDARD.encode: every group of up to three bytes becomes four
\* characters, the last group padded with '='
Base64Encode(bytes) ==
    LET n == Len(bytes)
        groups == (n + 2) \div 3
        group(g) == SubSeq(bytes, 3 * (g - 1) + 1, Min(3 * g, n))
    IN  [q \in 1..(4 * groups) |->
            LET g == ((q - 1) \div 4) + 1
                j == ((q - 1) % 4) + 1
            IN  IF j <= Len(group(g)) + 1
                THEN [c |-> "sym", grp |-> group(g), j |-> j]
                ELSE [c |-> "pad"]]

RECURSIVE Base64Groups(_, _)
Base64Groups(chars, g) ==
    IF g = 0 THEN << >> ELSE Base64Groups(chars, g - 1) \o chars[4 * (g - 1) + 1].grp

\* BASE64_STANDARD.decode: fails on a length that is no multiple of four,
\* on misplaced padding and on characters that do not belong together
Base64Decode(chars) ==
    LET groups == Len(chars) \div 4
        quadOk(g) ==
            LET first == chars[4 * (g - 1) + 1]
            IN  /\ first.c = "sym"
                /\ first.j = 1
                /\ Len(first.grp) \in 1..3
                /\ (g < groups => Len(first.grp) = 3)
                /\ \A j \in 1..4 :
                      chars[4 * (g - 1) + j] =
                          IF j <= Len(first.grp) + 1
                          THEN [c |-> "sym", grp |-> first.grp, j |-> j]
                          ELSE [c |-> "pad"]
    IN  IF Len(chars) % 4 # 0 \/ ~(\A g \in 1..groups : quadOk(g))
        THEN Err("InvalidData")
        ELSE Ok(Base64Groups(chars, groups))

encrypt_value(passphrase, plaintext, saltSeed, nonceSeed) ==
    LET salt == RandomBytes(SALT_LEN, saltSeed)
        nonce_bytes == RandomBytes(NONCE_LEN, nonceSeed)
        ciphertext == encrypt_bytes(passphrase, salt, nonce_bytes, plaintext)
    IN  [salt |-> Base64Encode(salt),
         nonce |-> Base64Encode(nonce_bytes),
         data |-> Base64Encode(ciphertext)]

decrypt_value(passphrase, value) ==
    LET salt == Base64Decode(value.salt)
        nonce == Base64Decode(value.nonce)
        data == Base64Decode(value.data)
    IN  IF ~salt.ok THEN Err("InvalidData")
        ELSE IF ~nonce.ok THEN Err("InvalidData")
        ELSE IF ~data.ok THEN Err("InvalidData")
        ELSE IF Len(salt.val) # SALT_LEN \/ Len(nonce.val) # NONCE_LEN THEN Err("InvalidData")
        ELSE decrypt_bytes(passphrase, salt.val, nonce.val, data.val)

(* ---------------------------------------------------------------------- *)
(* storage.rs: the JSON text of a room log                                 *)
(* ---------------------------------------------------------------------- *)
\* A JSON text is a sequence of tokens: '[', ']' and one token per object.
JsonOpen == [t |-> "["]
JsonClose == [t |-> "]"]
JsonObject(record) == [t |-> "obj", v |-> record]

\* serde_json::to_vec(&records)
to_vec(records) ==
    << JsonOpen >> \o [i \in 1..Len(records) |-> JsonObject(records[i])] \o << JsonClose >>

\* serde_json::from_slice::<Vec<StoredMessage>>(&raw)
from_slice(raw) ==
    IF /\ Len(raw) >= 2
       /\ raw[1] = JsonOpen
       /\ raw[Len(raw)] = JsonClose
       /\ \A i \in 2..(Len(raw) - 1) : raw[i].t = "obj"
    THEN Ok([i \in 1..(Len(raw) - 2) |-> raw[i + 1].v])
    ELSE Err("Json")

unwrap_or_default(result) == IF result.ok THEN result.val ELSE << >>

\* a log in the newline-delimited layout the file name messages.jsonl.enc
\* announces: the records one after another, no enclosing array
JsonLines(records) == [i \in 1..Len(records) |-> JsonObject(records[i])]

(* ---------------------------------------------------------------------- *)
(* storage.rs: the room logs                                               *)
(* ---------------------------------------------------------------------- *)
\* room_id.replace(':', "_"), the directory name of a room under the base
RoomKey(room_id) == [i \in DOMAIN room_id |-> IF room_id[i] = ":" THEN "_" ELSE room_id[i]]
RoomKeys == {RoomKey(r) : r \in RoomIds}

NoFile == [exists |-> FALSE, data |-> << >>]
File(data) == [exists |-> TRUE, data |-> data]

\* room_log_path: the file <base>/<room key>/messages.jsonl.enc
room_log_path(fsFiles, room_id) == fsFiles[RoomKey(room_id)]

\* append_message without the event-id check
append_message_no_dedup(fsDirs, fsFiles, passphrase, room_id, record, saltSeed, nonceSeed, ioOk) ==
    IF ~ioOk THEN [res |-> Err("Io"), dirs |-> fsDirs, files |-> fsFiles]
    ELSE
    LET made == fsDirs \cup {RoomKey(room_id)}
        path == room_log_path(fsFiles, room_id)
        raw == read_encrypted(path.data, passphrase)
    IN  IF path.exists /\ ~raw.ok
        THEN [res |-> Err(raw.err), dirs |-> made, files |-> fsFiles]
        ELSE
        LET records == IF path.exists THEN unwrap_or_default(from_slice(raw.val)) ELSE << >>
            data == to_vec(Append(records, record))
        IN  [res |-> Ok(<< >>), dirs |-> made,
             files |-> [fsFiles EXCEPT ![RoomKey(room_id)] =
                           File(write_encrypted(passphrase, data, saltSeed, nonceSeed))]]

\* append_message; ioOk = FALSE is ensure_room_dir failing.  The result is
\* the value returned and the directories and files left behind.
append_message(fsDirs, fsFiles, passphrase, room_id, record, saltSeed, nonceSeed, ioOk) ==
    IF ~ioOk THEN [res |-> Err("Io"), dirs |-> fsDirs, files |-> fsFiles]
    ELSE
    LET made == fsDirs \cup {RoomKey(room_id)}
        path == room_log_path(fsFiles, room_id)
        raw == read_encrypted(path.data, passphrase)
    IN  IF path.exists /\ ~raw.ok
        THEN [res |-> Err(raw.err), dirs |-> made, files |-> fsFiles]
        ELSE
        LET records == IF path.exists THEN unwrap_or_default(from_slice(raw.val)) ELSE << >>
            duplicate == /\ record.event_id # None
                         /\ \E i \in 1..Len(records) : records[i].event_id = record.event_id
            data == to_vec(Append(records, record))
        IN  IF duplicate
            THEN [res |-> Ok(<< >>), dirs |-> made, files |-> fsFiles]
            ELSE [res |-> Ok(<< >>), dirs |-> made,
                  files |-> [fsFiles EXCEPT ![RoomKey(room_id)] =
                                File(write_encrypted(passphrase, data, saltSeed, nonceSeed))]]

RECURSIVE MaxOfSeq(_)
\* Iterator::max over the timestamps: None for no record
MaxOfSeq(ts) ==
    IF Len(ts) = 0 THEN None
    ELSE LET rest == MaxOfSeq(Tail(ts))
         IN  IF rest = None \/ rest[1] < Head(ts) THEN Some(Head(ts)) ELSE rest

\* latest_room_timestamp taking the timestamp of the last record
latest_room_timestamp_last(fsFiles, room_id, passphrase) ==
    LET path == room_log_path(fsFiles, room_id)
        raw == read_encrypted(path.data, passphrase)
    IN  IF ~path.exists THEN Ok(None)
        ELSE IF ~raw.ok THEN Err(raw.err)
        ELSE LET records == unwrap_or_default(from_slice(raw.val))
             IN  Ok(IF Len(records) = 0 THEN None ELSE Some(records[Len(records)].timestamp))

latest_room_timestamp(fsFiles, room_id, passphrase) ==
    LET path == room_log_path(fsFiles, room_id)
        raw == read_encrypted(path.data, passphrase)
    IN  IF ~path.exists THEN Ok(None)
        ELSE IF ~raw.ok THEN Err(raw.err)
        ELSE LET records == unwrap_or_default(from_slice(raw.val))
             IN  Ok(MaxOfSeq([i \in 1..Len(records) |-> records[i].timestamp]))

\* load_all_messages skipping the logs it cannot decrypt
load_all_messages_skipping(fsDirs, fsFiles, passphrase) ==
    LET logs == {key \in fsDirs : /\ fsFiles[key].exists
                                  /\ read_encrypted(fsFiles[key].data, passphrase).ok}
    IN  Ok({ << key, unwrap_or_default(from_slice(read_encrypted(fsFiles[key].data, passphrase).val)) >> :
                key \in logs })

\* load_all_messages: read_dir yields the room directories in no particular
\* order, so the result is the set of (room_key, records) pairs
load_all_messages(fsDirs, fsFiles, passphrase) ==
    LET logs == {key \in fsDirs : fsFiles[key].exists}
    IN  IF \E key \in logs : ~read_encrypted(fsFiles[key].data, passphrase).ok
        THEN Err("Other")
        ELSE Ok({ << key, unwrap_or_default(from_slice(read_encrypted(fsFiles[key].data, passphrase).val)) >> :
                    key \in logs })

(* ---------------------------------------------------------------------- *)
(* matrix.rs: what the homeserver hands to the protocol task               *)
(* ---------------------------------------------------------------------- *)
\* the passphrase start_sync is called with
RunPassphrase == "hunter2"
OwnUser == "@a:x"
PeerUser == "@b:x"

\* The shapes of timeline events: text; media whose download succeeds,
\* whose download fails, and media without a source; a room message of
\* another type; an event that is not a room message (state, redaction,
\* undecryptable).
ServerShapes ==
    { [tag |-> "text",     message |-> TRUE,  msgtype |-> "text",   body |-> "yo",      source |-> FALSE, download |-> FALSE],
      [tag |-> "img",      message |-> TRUE,  msgtype |-> "image",  body |-> "pic.png", source |-> TRUE,  download |-> TRUE],
      [tag |-> "imgfail",  message |-> TRUE,  msgtype |-> "image",  body |-> "pic.png", source |-> TRUE,  download |-> FALSE],
      [tag |-> "imgnosrc", message |-> TRUE,  msgtype |-> "image",  body |-> "pic.png", source |-> FALSE, download |-> FALSE],
      [tag |-> "notice",   message |-> TRUE,  msgtype |-> "notice", body |-> "yo",      source |-> FALSE, download |-> FALSE],
      [tag |-> "state",    message |-> FALSE, msgtype |-> "none",   body |-> "",        source |-> FALSE, download |-> FALSE] }

\* message: deserialize_as::<OriginalRoomMessageEvent> succeeds;
\* source: content.source() is Some; download: get_media_content succeeds
ServerEvent(shape, ts) ==
    [event_id |-> "$" \o shape.tag \o ToString(ts), sender |-> PeerUser,
     origin_server_ts |-> ts, message |-> shape.message, msgtype |-> shape.msgtype,
     body |-> shape.body, source |-> shape.source, download |-> shape.download,
     relates_to |-> None]

ServerEvents == {ServerEvent(shape, ts) : shape \in ServerShapes, ts \in 1..MaxServerTs}

\* the answers of room.messages: an error, or a chunk of n events and an
\* end token
PageError == [ok |-> FALSE]
Page(n, end) == [ok |-> TRUE, n |-> n, end |-> end]

(* ---------------------------------------------------------------------- *)
(* matrix.rs: events published to the UI                                   *)
(* ---------------------------------------------------------------------- *)
RoomInfo(room_id, name, state, inviter) ==
    [room_id |-> room_id, name |-> name, state |-> state, inviter |-> inviter]

RoomsEvent(room_infos) == [type |-> "Rooms", rooms |-> room_infos]

MessageEvent(room_id, event_id, sender, body, timestamp, reply_to) ==
    [type |-> "Message", room_id |-> room_id, event_id |-> event_id, sender |-> sender,
     body |-> body, timestamp |-> timestamp, reply_to |-> reply_to]

AttachmentEvent(room_id, event_id, sender, name, path, kind, timestamp, reply_to) ==
    [type |-> "Attachment", room_id |-> room_id, event_id |-> event_id, sender |-> sender,
     name |-> name, path |-> path, kind |-> kind, timestamp |-> timestamp,
     reply_to |-> reply_to]

BackfillDone == [type |-> "BackfillDone"]

\* publish_rooms: the joined rooms, then the invited ones; a room without
\* a display name is listed under its id
publish_rooms(joined_rooms, invited_rooms) ==
    RoomsEvent([i \in 1..Len(joined_rooms) |-> RoomInfo(joined_rooms[i], joined_rooms[i], "Joined", None)]
               \o [i \in 1..Len(invited_rooms) |->
                      RoomInfo(invited_rooms[i].room_id,
                               IF invited_rooms[i].inviter # None
                               THEN invited_rooms[i].inviter[1] ELSE invited_rooms[i].room_id,
                               "Invited", invited_rooms[i].inviter)])

\* what the client knows of a room: its state and, for an invitation, what
\* room.invite_details() answers
NoRoom == [state |-> "none", details |-> Err("none")]
JoinedRoom == [state |-> "joined", details |-> Err("none")]
\* names are character sequences as the room ids are
EmptyName == << >>
BobName == << "B", "o", "b" >>
InviteDetails == {Err("details"), Ok(None), Ok(Some(EmptyName)), Ok(Some(BobName))}
ClientRoomStates == {NoRoom, JoinedRoom} \cup {[state |-> "invited", details |-> d] : d \in InviteDetails}

\* the inviter of an invitation, an empty name included
invite_inviter_unfiltered(details) ==
    IF ~details.ok THEN None ELSE details.val

\* invite_details().ok().and_then(inviter).map(name).filter(not empty)
invite_inviter(details) ==
    IF ~details.ok THEN None
    ELSE IF details.val = None THEN None
    ELSE IF details.val[1] = EmptyName THEN None
    ELSE details.val

\* client.joined_rooms() and client.invited_rooms(), in the order of the
\* room ids
RoomOrder == << R1, R2 >>
joined_rooms(rooms) ==
    LET IsJoined(r) == rooms[r].state = "joined" IN SelectSeq(RoomOrder, IsJoined)
invited_rooms(rooms) ==
    LET IsInvited(r) == rooms[r].state = "invited"
        ids == SelectSeq(RoomOrder, IsInvited)
    IN  [i \in DOMAIN ids |-> [room_id |-> ids[i], inviter |-> invite_inviter(rooms[ids[i]].details)]]

(* ---------------------------------------------------------------------- *)
(* matrix.rs: backfill                                                     *)
(* ---------------------------------------------------------------------- *)
TextItem(event_id, sender, body, timestamp, reply_to) ==
    [item |-> "Text", event_id |-> event_id, sender |-> sender, body |-> body,
     timestamp |-> timestamp, reply_to |-> reply_to]

AttachmentItem(event_id, sender, name, path, kind, timestamp, reply_to) ==
    [item |-> "Attachment", event_id |-> event_id, sender |-> sender, name |-> name,
     path |-> path, kind |-> kind, timestamp |-> timestamp, reply_to |-> reply_to]

\* the bodies of the events carry no surrounding white space
attachment_name(body, fallback) == IF body = "" THEN fallback ELSE body

extract_reply_to(event) == event.relates_to

\* the file the media is written to, or the failure of the download
download_attachment(event, name) ==
    IF event.download THEN Ok([dir |-> "attachments", file |-> name]) ELSE Err("Media")

backfill_attachment(event_id, sender, ts, kind, body, reply_to, event) ==
    IF ~event.source THEN None
    ELSE LET name == attachment_name(body, kind)
             path == download_attachment(event, name)
         IN  IF path.ok
             THEN Some(AttachmentItem(event_id, sender, name, path.val, kind, ts, reply_to))
             ELSE Some(TextItem(event_id, sender, "[" \o kind \o "] " \o name, ts, reply_to))

\* MatrixEvent::Receipt
ReceiptEvent(room_id, event_id) == [type |-> "Receipt", room_id |-> room_id, event_id |-> event_id]

\* handle_attachment_event publishing nothing when the download fails
handle_attachment_event_silent(event_id, sender, ts, kind, body, reply_to, event) ==
    IF ~event.source THEN None
    ELSE LET name == attachment_name(body, kind)
             path == download_attachment(event, name)
         IN  IF path.ok
             THEN Some(AttachmentItem(event_id, sender, name, path.val, kind, ts, reply_to))
             ELSE None

\* handle_attachment_event: what it publishes and stores, None for the
\* return without a media source
handle_attachment_event(event_id, sender, ts, kind, body, reply_to, event) ==
    IF ~event.source THEN None
    ELSE LET name == attachment_name(body, kind)
             path == download_attachment(event, name)
         IN  IF path.ok
             THEN Some(AttachmentItem(event_id, sender, name, path.val, kind, ts, reply_to))
             ELSE Some(TextItem(event_id, sender, "[" \o kind \o "] " \o name, ts, reply_to))

\* the body of the loop over a page, keeping the event whose timestamp
\* equals the stored latest
ExamineEvent_keeps_equal(event, last_ts) ==
    IF ~event.message THEN [stop |-> FALSE, item |-> None]
    ELSE LET ts == event.origin_server_ts
         IN  IF ts < last_ts THEN [stop |-> TRUE, item |-> None]
             ELSE IF event.msgtype = "text"
             THEN [stop |-> FALSE,
                   item |-> Some(TextItem(event.event_id, event.sender, event.body, ts,
                                          extract_reply_to(event)))]
             ELSE IF event.msgtype \in {"image", "file", "video", "audio"}
             THEN [stop |-> FALSE,
                   item |-> backfill_attachment(event.event_id, event.sender, ts, event.msgtype,
                                                event.body, extract_reply_to(event), event)]
             ELSE [stop |-> FALSE, item |-> None]

\* the body of the loop over a page for one event: whether the loops stop
\* and the item collected, if any
ExamineEvent(event, last_ts) ==
    IF ~event.message THEN [stop |-> FALSE, item |-> None]
    ELSE LET ts == event.origin_server_ts
         IN  IF ts <= last_ts THEN [stop |-> TRUE, item |-> None]
             ELSE IF event.msgtype = "text"
             THEN [stop |-> FALSE,
                   item |-> Some(TextItem(event.event_id, event.sender, event.body, ts,
                                          extract_reply_to(event)))]
             ELSE IF event.msgtype \in {"image", "file", "video", "audio"}
             THEN [stop |-> FALSE,
                   item |-> backfill_attachment(event.event_id, event.sender, ts, event.msgtype,
                                                event.body, extract_reply_to(event), event)]
             ELSE [stop |-> FALSE, item |-> None]

\* collected.sort_by_key leaving the items as collected
sort_by_key_unsorted(items) == items

\* collected.sort_by_key(timestamp): a stable sort, so an item goes behind
\* the items of smaller timestamp and the earlier items of equal timestamp
sort_by_key(items) ==
    LET place(i) == Cardinality({j \in 1..Len(items) :
                        \/ items[j].timestamp < items[i].timestamp
                        \/ (items[j].timestamp = items[i].timestamp /\ j <= i)})
    IN  [p \in 1..Len(items) |-> items[CHOOSE i \in 1..Len(items) : place(i) = p]]

\* the event a collected item is published as
BackfillEvent(room_id, msg) ==
    IF msg.item = "Text"
    THEN MessageEvent(room_id, msg.event_id, msg.sender, msg.body, msg.timestamp, msg.reply_to)
    ELSE AttachmentEvent(room_id, msg.event_id, msg.sender, msg.name, msg.path, msg.kind,
                         msg.timestamp, msg.reply_to)

\* store_message_encrypted; dirOk = FALSE is messages_dir failing
store_message_encrypted(fsDirs, fsFiles, passphrase, room_id, ts, sender, body, event_id, reply_to, attachment, dirOk, ioOk) ==
    IF ~dirOk THEN [res |-> Err("Io"), dirs |-> fsDirs, files |-> fsFiles]
    ELSE LET record == StoredMessage(ts, sender, body, event_id, reply_to, attachment)
         IN  append_message(fsDirs, fsFiles, passphrase, room_id, record, 0, 0, ioOk)

\* the store call that follows the publication of a collected item
StoreBackfillItem(fsDirs, fsFiles, passphrase, room_id, msg, dirOk, ioOk) ==
    IF msg.item = "Text"
    THEN store_message_encrypted(fsDirs, fsFiles, passphrase, room_id, msg.timestamp, msg.sender,
                                 msg.body, Some(msg.event_id), msg.reply_to, None, dirOk, ioOk)
    ELSE store_message_encrypted(fsDirs, fsFiles, passphrase, room_id, msg.timestamp, msg.sender,
                                 msg.name, Some(msg.event_id), msg.reply_to,
                                 Some([kind |-> msg.kind, name |-> msg.name, path |-> msg.path]),
                                 dirOk, ioOk)

(* ---------------------------------------------------------------------- *)
(* main.rs: the state of the UI and its handlers                           *)
(* ---------------------------------------------------------------------- *)
\* HashMap: a function on the keys present
Get(map, key, default) == IF key \in DOMAIN map THEN map[key] ELSE default
Insert(map, key, value) == [k \in DOMAIN map \cup {key} |-> IF k = key THEN value ELSE map[k]]
EmptyMap == [k \in {} |-> 0]

\* time units of the model in a day of the local calendar
TicksPerDay == 2

format_timestamp(ts) == ToString(ts % TicksPerDay)
format_date(ts) == "day " \o ToString(ts \div TicksPerDay)
format_sender(sender) ==
    IF sender = "@a:x" THEN "a" ELSE IF sender = "@b:x" THEN "b" ELSE sender

AppNew ==
    [rooms |-> << >>, selected |-> 0, messages_by_room |-> EmptyMap,
     last_date_by_room |-> EmptyMap, seen_event_ids |-> EmptyMap,
     last_message_ts |-> EmptyMap, last_seen_ts |-> EmptyMap, unread_counts |-> EmptyMap,
     message_selected |-> None, is_syncing |-> TRUE, notifications_ready |-> FALSE,
     own_user_id |-> None]

\* self.rooms.get(self.selected).map(|room| room.room_id); selected counts
\* from 0
selected_room_id(a) ==
    IF a.selected < Len(a.rooms) THEN Some(a.rooms[a.selected + 1].room_id) ELSE None

mark_room_read(a, room_id) ==
    [a EXCEPT !.last_seen_ts = IF room_id \in DOMAIN a.last_message_ts
                               THEN Insert(@, room_id, a.last_message_ts[room_id]) ELSE @,
              !.unread_counts = Insert(@, room_id, 0)]

on_up(a) ==
    IF a.selected > 0
    THEN LET b == [a EXCEPT !.selected = @ - 1, !.message_selected = None]
         IN  IF selected_room_id(b) # None THEN mark_room_read(b, selected_room_id(b)[1]) ELSE b
    ELSE a

\* on_down moving the selection without marking the room read
on_down_unmarked(a) ==
    IF a.selected + 1 < Len(a.rooms)
    THEN [a EXCEPT !.selected = @ + 1, !.message_selected = None]
    ELSE a

on_down(a) ==
    IF a.selected + 1 < Len(a.rooms)
    THEN LET b == [a EXCEPT !.selected = @ + 1, !.message_selected = None]
         IN  IF selected_room_id(b) # None THEN mark_room_read(b, selected_room_id(b)[1]) ELSE b
    ELSE a

\* self.messages_by_room.get(&self.selected_room_id()?)
current_messages(a) ==
    IF selected_room_id(a) # None /\ selected_room_id(a)[1] \in DOMAIN a.messages_by_room
    THEN Some(a.messages_by_room[selected_room_id(a)[1]]) ELSE None

\* message_selected counts from 0; idx.saturating_sub(1)
on_message_up(a) ==
    IF current_messages(a) = None \/ current_messages(a)[1] = << >> THEN a
    ELSE [a EXCEPT !.message_selected =
              IF @ # None THEN Some(IF @[1] = 0 THEN 0 ELSE @[1] - 1)
              ELSE Some(Len(current_messages(a)[1]) - 1)]

\* on_message_down stepping past the last message
on_message_down_past_end(a) ==
    IF current_messages(a) = None \/ current_messages(a)[1] = << >> THEN a
    ELSE [a EXCEPT !.message_selected = IF @ # None THEN Some(@[1] + 1) ELSE Some(0)]

on_message_down(a) ==
    IF current_messages(a) = None \/ current_messages(a)[1] = << >> THEN a
    ELSE [a EXCEPT !.message_selected =
              IF @ # None
              THEN (IF @[1] + 1 < Len(current_messages(a)[1]) THEN Some(@[1] + 1) ELSE Some(@[1]))
              ELSE Some(0)]

update_rooms(a, rooms) ==
    LET ids == {rooms[i].room_id : i \in DOMAIN rooms}
        withEntries(map, default) ==
            [k \in DOMAIN map \cup ids |-> IF k \in DOMAIN map THEN map[k] ELSE default]
        b == [a EXCEPT !.messages_by_room = withEntries(@, << >>),
                       !.seen_event_ids = withEntries(@, {}),
                       !.unread_counts = withEntries(@, 0),
                       !.last_seen_ts = withEntries(@, 0),
                       !.last_message_ts = withEntries(@, 0),
                       !.rooms = rooms,
                       !.selected = 0,
                       !.message_selected = None,
                       !.is_syncing = FALSE]
    IN  IF selected_room_id(b) # None THEN mark_room_read(b, selected_room_id(b)[1]) ELSE b

\* push_message_with_time and push_attachment_with_time differ in the item
\* pushed only
\* the push that sets a separator ahead of every entry
PushItem_always_separated(a, room_id, event_id, ts, item) ==
    IF event_id # None /\ event_id[1] \in Get(a.seen_event_ids, room_id, {})
    THEN a
    ELSE LET date == format_date(ts)
             entry == Get(a.messages_by_room, room_id, << >>)
             separated == Append(entry, [item |-> "Separator", date |-> date])
         IN  [a EXCEPT !.seen_event_ids =
                           IF event_id # None
                           THEN Insert(@, room_id, Get(@, room_id, {}) \cup {event_id[1]})
                           ELSE @,
                       !.messages_by_room = Insert(@, room_id, Append(separated, item)),
                       !.last_date_by_room = Insert(@, room_id, date),
                       !.last_message_ts = Insert(@, room_id, ts)]

\* the push that does not look at the seen event ids
PushItem_unchecked(a, room_id, event_id, ts, item) ==
    LET date == format_date(ts)
        last_date == Get(a.last_date_by_room, room_id, "")
        entry == Get(a.messages_by_room, room_id, << >>)
        separated == IF last_date # date
                     THEN Append(entry, [item |-> "Separator", date |-> date])
                     ELSE entry
    IN  [a EXCEPT !.seen_event_ids =
                      IF event_id # None
                      THEN Insert(@, room_id, Get(@, room_id, {}) \cup {event_id[1]})
                      ELSE @,
                  !.messages_by_room = Insert(@, room_id, Append(separated, item)),
                  !.last_date_by_room = Insert(@, room_id, date),
                  !.last_message_ts = Insert(@, room_id, ts)]

PushItem(a, room_id, event_id, ts, item) ==
    IF event_id # None /\ event_id[1] \in Get(a.seen_event_ids, room_id, {})
    THEN a
    ELSE LET date == format_date(ts)
             last_date == Get(a.last_date_by_room, room_id, "")
             entry == Get(a.messages_by_room, room_id, << >>)
             separated == IF last_date # date
                          THEN Append(entry, [item |-> "Separator", date |-> date])
                          ELSE entry
         IN  [a EXCEPT !.seen_event_ids =
                           IF event_id # None
                           THEN Insert(@, room_id, Get(@, room_id, {}) \cup {event_id[1]})
                           ELSE @,
                       !.messages_by_room = Insert(@, room_id, Append(separated, item)),
                       !.last_date_by_room = Insert(@, room_id, date),
                       !.last_message_ts = Insert(@, room_id, ts)]

push_message_with_time(a, room_id, event_id, ts, sender, body) ==
    PushItem(a, room_id, event_id, ts,
             [item |-> "Message", time |-> format_timestamp(ts), name |-> format_sender(sender),
              text |-> body])

push_attachment_with_time(a, room_id, event_id, ts, sender, label, filename, path) ==
    PushItem(a, room_id, event_id, ts,
             [item |-> "Attachment", time |-> format_timestamp(ts),
              name |-> format_sender(sender), label |-> label, filename |-> filename,
              path |-> path])

\* what handle_incoming_message and handle_incoming_attachment do before
\* the push
\* the count taken whatever the timestamp of the event
CountUnread_any_time(a, room_id, ts) ==
    LET is_selected == selected_room_id(a) = Some(room_id)
    IN  IF ~is_selected
        THEN [a EXCEPT !.unread_counts = Insert(@, room_id, Get(@, room_id, 0) + 1)]
        ELSE a

CountUnread(a, room_id, ts) ==
    LET is_selected == selected_room_id(a) = Some(room_id)
        last_seen == Get(a.last_seen_ts, room_id, 0)
    IN  IF ~is_selected /\ ts > last_seen
        THEN [a EXCEPT !.unread_counts = Insert(@, room_id, Get(@, room_id, 0) + 1)]
        ELSE a

\* handle_incoming_message leaving the selected room as it is after the push
handle_incoming_message_unmarked(a, room_id, event_id, ts, sender, body) ==
    push_message_with_time(CountUnread(a, room_id, ts), room_id, event_id, ts, sender, body)

handle_incoming_message(a, room_id, event_id, ts, sender, body) ==
    LET is_selected == selected_room_id(a) = Some(room_id)
        b == push_message_with_time(CountUnread(a, room_id, ts), room_id, event_id, ts, sender, body)
    IN  IF is_selected THEN mark_room_read(b, room_id) ELSE b

handle_incoming_attachment(a, room_id, event_id, ts, sender, label, filename, path) ==
    LET is_selected == selected_room_id(a) = Some(room_id)
        b == push_attachment_with_time(CountUnread(a, room_id, ts), room_id, event_id, ts, sender,
                                       label, filename, path)
    IN  IF is_selected THEN mark_room_read(b, room_id) ELSE b

\* should_notify without the check of notifications_ready
should_notify_ungated(a, room_id, sender) ==
    IF selected_room_id(a) = Some(room_id) THEN FALSE
    ELSE IF a.own_user_id # None /\ sender = a.own_user_id[1] THEN FALSE
    ELSE TRUE

\* should_notify without the check of the sender
should_notify_own(a, room_id, sender) ==
    IF ~a.notifications_ready THEN FALSE
    ELSE IF selected_room_id(a) = Some(room_id) THEN FALSE
    ELSE TRUE

should_notify(a, room_id, sender) ==
    IF ~a.notifications_ready THEN FALSE
    ELSE IF selected_room_id(a) = Some(room_id) THEN FALSE
    ELSE IF a.own_user_id # None /\ sender = a.own_user_id[1] THEN FALSE
    ELSE TRUE

(* ---------------------------------------------------------------------- *)
(* matrix.rs: device verification                                          *)
(* ---------------------------------------------------------------------- *)
VerificationStatus(message) == [type |-> "VerificationStatus", message |-> message]
VerificationEmojis(emojis) == [type |-> "VerificationEmojis", emojis |-> emojis]
VerificationDone == [type |-> "VerificationDone"]
VerificationCancelled(reason) == [type |-> "VerificationCancelled", reason |-> reason]

\* what the protocol library knows of a verification request and of the
\* SAS started from it; the SAS of request r is known by the number r
NewRequest == [st |-> "created", stream |-> << >>, started |-> FALSE, alive |-> TRUE]
NoSas == [st |-> "none", accepted |-> FALSE, confirmed |-> FALSE]
NewSas == [st |-> "started", accepted |-> FALSE, confirmed |-> FALSE]

\* the emojis of a SAS as the library reports them
SasEmojis == << [symbol |-> "D", description |-> "dog"], [symbol |-> "A", description |-> "apple"] >>

\* a state change of a SAS reaches every task that follows its changes
Notify(ws, sas, change) ==
    [ws EXCEPT ![sas] = [i \in DOMAIN @ |-> IF @[i].alive
                                            THEN [@[i] EXCEPT !.stream = Append(@, change)]
                                            ELSE @[i]]]

\* start_sas_flow: accept, put the SAS into the slot, spawn the task that
\* follows sas.changes(); the result is the slot, the SAS objects and the
\* tasks
start_sas_flow(slot, ss, ws, sas) ==
    [slot |-> Some(sas),
     sass |-> [ss EXCEPT ![sas].accepted = TRUE],
     watchers |-> [ws EXCEPT ![sas] = Append(@, [stream |-> << >>, alive |-> TRUE])]]

\* the event, if any, the task spawned by start_sas_flow publishes for a
\* state of the SAS, and whether it leaves its loop
SasStateEvent(state) ==
    IF state = "KeysExchanged"
    THEN [event |-> Some(VerificationEmojis([i \in DOMAIN SasEmojis |->
                            << SasEmojis[i].symbol, SasEmojis[i].description >>])),
          break |-> FALSE]
    ELSE IF state = "Done" THEN [event |-> Some(VerificationDone), break |-> TRUE]
    ELSE IF state = "Cancelled"
    THEN [event |-> Some(VerificationCancelled("cancelled")), break |-> TRUE]
    ELSE [event |-> None, break |-> FALSE]

(* ---------------------------------------------------------------------- *)
(* main.rs, matrix.rs: the two unbounded channels                          *)
(* ---------------------------------------------------------------------- *)
\* UnboundedSender::send: the item joins the queue unless the receiver is
\* gone; it never waits
send(queue, receiver_gone, item) ==
    IF receiver_gone THEN [res |-> Err("SendError"), queue |-> queue]
    ELSE [res |-> Ok(item), queue |-> Append(queue, item)]

\* a receive that hands out the newest item
try_recv_newest(queue) ==
    IF queue = << >> THEN [res |-> Err("Empty"), queue |-> queue]
    ELSE [res |-> Ok(queue[Len(queue)]), queue |-> SubSeq(queue, 1, Len(queue) - 1)]

\* UnboundedReceiver::try_recv
try_recv(queue) ==
    IF queue = << >> THEN [res |-> Err("Empty"), queue |-> queue]
    ELSE [res |-> Ok(Head(queue)), queue |-> Tail(queue)]

\* UnboundedReceiver::recv: Some(item), None once the queue is empty and
\* every sender is gone, otherwise it waits
recv(queue, senders_gone) ==
    IF queue # << >> THEN [ready |-> TRUE, item |-> Some(Head(queue)), queue |-> Tail(queue)]
    ELSE IF senders_gone THEN [ready |-> TRUE, item |-> None, queue |-> queue]
    ELSE [ready |-> FALSE, item |-> None, queue |-> queue]

\* the tasks holding a sender of the event channel: start_sync itself and
\* the event handler the continuous sync runs
Producers == {"start_sync", "handler"}

(* ---------------------------------------------------------------------- *)
(* config.rs: the sessions of the accounts                                 *)
(* ---------------------------------------------------------------------- *)
\* a MatrixSession, opaque to the configuration
Sessions == {[user_id |-> OwnUser, device_id |-> "DEV1"], [user_id |-> PeerUser, device_id |-> "DEV2"]}

\* serde_json::to_vec(session)
session_to_vec(session) == << JsonObject(session) >>

\* serde_json::from_slice::<MatrixSession>(&raw)
session_from_slice(raw) ==
    IF Len(raw) = 1 /\ raw[1].t = "obj" /\ raw[1].v \in Sessions
    THEN Ok(raw[1].v)
    ELSE Err("Json")

\* the part of an AccountConfig the session functions touch
AccountConfig(session_encrypted, session) ==
    [session_encrypted |-> session_encrypted, session |-> session]

\* the envelopes a configuration file may hold for an account: written by
\* encrypt_account_session under either passphrase, or holding something
\* that is not a session
SessionEnvelopes ==
    {encrypt_value(p, session_to_vec([user_id |-> OwnUser, device_id |-> "DEV1"]), 0, 1) : p \in Passphrases}
        \cup {encrypt_value("hunter2", << JsonOpen, JsonClose >>, 0, 1)}

AccountConfigs ==
    {AccountConfig(e, s) : e \in {None} \cup {Some(v) : v \in SessionEnvelopes},
                           s \in {None} \cup {Some(v) : v \in {CHOOSE x \in Sessions : TRUE}}}

\* the loop of decrypt_sessions from account i on
RECURSIVE decrypt_sessions_from(_, _, _)
decrypt_sessions_from(accounts, passphrase, i) ==
    IF i > Len(accounts) THEN [res |-> Ok("unit"), accounts |-> accounts]
    ELSE IF accounts[i].session # None THEN decrypt_sessions_from(accounts, passphrase, i + 1)
    ELSE IF accounts[i].session_encrypted = None
    THEN decrypt_sessions_from(accounts, passphrase, i + 1)
    ELSE LET raw == decrypt_value(passphrase, accounts[i].session_encrypted[1])
         IN  IF ~raw.ok THEN [res |-> Err("InvalidData"), accounts |-> accounts]
             ELSE LET session == session_from_slice(raw.val)
                  IN  IF ~session.ok THEN [res |-> Err("InvalidData"), accounts |-> accounts]
                      ELSE decrypt_sessions_from(
                               [accounts EXCEPT ![i].session = Some(session.val)],
                               passphrase, i + 1)

decrypt_sessions(accounts, passphrase) == decrypt_sessions_from(accounts, passphrase, 1)

\* encrypt_account_session: the envelope of the cleartext session, which
\* stays where it is
encrypt_account_session(account, passphrase, seed) ==
    IF account.session = None THEN account
    ELSE [account EXCEPT !.session_encrypted =
              Some(encrypt_value(passphrase, session_to_vec(account.session[1]), seed, seed))]

encrypt_missing_sessions(accounts, passphrase, seed) ==
    LET missing(a) == a.session # None /\ a.session_encrypted = None
    IN  [changed |-> \E i \in DOMAIN accounts : missing(accounts[i]),
         accounts |-> [i \in DOMAIN accounts |->
                          IF missing(accounts[i])
                          THEN encrypt_account_session(accounts[i], passphrase, seed)
                          ELSE accounts[i]]]

\* main: the account started with, cfg.active.unwrap_or(0) clamped to the last
\* account, counted from 0
startup_index(accounts, active) ==
    Min(IF active = None THEN 0 ELSE active[1], IF Len(accounts) = 0 THEN 0 ELSE Len(accounts) - 1)

\* update_account_session; active counts from 0 as in the source
update_account_session(accounts, active, updated, passphrase, seed) ==
    IF active # None /\ active[1] + 1 \in DOMAIN accounts
    THEN [accounts |-> [accounts EXCEPT ![active[1] + 1] =
                           encrypt_account_session([@ EXCEPT !.session = updated.session],
                                                   passphrase, seed)],
          active |-> active]
    ELSE [accounts |-> Append(accounts, encrypt_account_session(updated, passphrase, seed)),
          active |-> Some(0)]

\* an account written with its cleartext session
serialize_account_in_clear(account) ==
    (IF account.session_encrypted = None THEN << >>
     ELSE << << "session_encrypted", account.session_encrypted[1] >> >>)
        \o (IF account.session = None THEN << >> ELSE << << "session", account.session[1] >> >>)

\* the fields of an account in the document: session is skip_serializing,
\* session_encrypted is skipped when it is None
serialize_account(account) ==
    IF account.session_encrypted = None THEN << >>
    ELSE << << "session_encrypted", account.session_encrypted[1] >> >>

\* save_config: the document written
save_config(accounts, active) ==
    [active |-> active, accounts |-> [i \in DOMAIN accounts |-> serialize_account(accounts[i])]]

(* ---------------------------------------------------------------------- *)
(* matrix.rs: the command loop of start_sync                               *)
(* ---------------------------------------------------------------------- *)
\* RoomId::parse: the sigil of a room id and the colon before its server name
RoomId_parse(id) ==
    IF id # << >> /\ Head(id) = "!" /\ \E i \in DOMAIN id : id[i] = ":"
    THEN Ok(id) ELSE Err("invalid id")

\* RoomOrAliasId::parse: a room id or a room alias
RoomOrAliasId_parse(id) ==
    IF id # << >> /\ Head(id) \in {"!", "#"} /\ \E i \in DOMAIN id : id[i] = ":"
    THEN Ok(id) ELSE Err("invalid id")

\* UserId::parse: the sigil of a user id and the colon before its server name
UserId_parse(id) ==
    IF id # << >> /\ Head(id) = "@" /\ \E i \in DOMAIN id : id[i] = ":"
    THEN Ok(id) ELSE Err("invalid id")

\* client.get_room(&room_id)
get_room(rooms, room_id) ==
    IF room_id \in DOMAIN rooms /\ rooms[room_id].state # "none" THEN Some(room_id) ELSE None

\* what one turn of the loop does: the calls to the homeserver, the events
\* published and the rooms the client knows afterwards
Turn(calls_, events, rooms) == [calls |-> calls_, events |-> events, rooms |-> rooms]
Dropped(rooms) == Turn(<< >>, << >>, rooms)
Call(name, target) == [call |-> name, target |-> target]
Published(rooms) == << publish_rooms(joined_rooms(rooms), invited_rooms(rooms)) >>

\* the JoinRoom arm publishing the rooms whether or not the room parses
join_room_always_publishing(room, rooms, outcome) ==
    IF RoomOrAliasId_parse(room).ok
    THEN LET after == IF outcome.ok /\ room \in DOMAIN rooms
                      THEN [rooms EXCEPT ![room] = JoinedRoom] ELSE rooms
         IN  Turn(<< Call("join_room_by_id_or_alias", room) >>, Published(after), after)
    ELSE Turn(<< >>, Published(rooms), rooms)

\* MatrixCommand::JoinRoom
join_room(room, rooms, outcome) ==
    IF RoomOrAliasId_parse(room).ok
    THEN LET after == IF outcome.ok /\ room \in DOMAIN rooms
                      THEN [rooms EXCEPT ![room] = JoinedRoom] ELSE rooms
         IN  Turn(<< Call("join_room_by_id_or_alias", room) >>, Published(after), after)
    ELSE Dropped(rooms)

\* match cmd: outcome is the homeserver's answer to the call and readOk
\* whether fs::read of the attachment succeeds
handle_command(cmd, rooms, outcome, readOk) ==
    CASE cmd.type = "SendMessage" ->
           IF RoomId_parse(cmd.target).ok /\ get_room(rooms, cmd.target) # None
           THEN Turn(<< Call("send", cmd.target) >>, << >>, rooms)
           ELSE Dropped(rooms)
      [] cmd.type = "SendAttachment" ->
           IF RoomId_parse(cmd.target).ok /\ get_room(rooms, cmd.target) # None /\ readOk
           THEN Turn(<< Call("send_attachment", cmd.target) >>, << >>, rooms)
           ELSE Dropped(rooms)
      [] cmd.type = "JoinRoom" -> join_room(cmd.target, rooms, outcome)
      [] cmd.type = "CreateDirect" ->
           IF UserId_parse(cmd.target).ok
           THEN LET after == IF outcome.ok
                             THEN [rooms EXCEPT ![outcome.val] = JoinedRoom] ELSE rooms
                IN  Turn(<< Call("create_room", cmd.target) >>, Published(after), after)
           ELSE Dropped(rooms)
      [] cmd.type \in {"LeaveRoom", "RejectInvite"} ->
           IF RoomId_parse(cmd.target).ok /\ get_room(rooms, cmd.target) # None
           THEN LET after == IF outcome.ok
                             THEN [rooms EXCEPT ![cmd.target] = NoRoom] ELSE rooms
                IN  Turn(<< Call("leave", cmd.target) >>, Published(after), after)
           ELSE Dropped(rooms)
      [] cmd.type = "AcceptInvite" ->
           IF RoomId_parse(cmd.target).ok /\ get_room(rooms, cmd.target) # None
           THEN LET after == IF outcome.ok /\ rooms[cmd.target].state = "invited"
                             THEN [rooms EXCEPT ![cmd.target] = JoinedRoom] ELSE rooms
                IN  Turn(<< Call("join", cmd.target) >>, Published(after), after)
           ELSE Dropped(rooms)

(* ---------------------------------------------------------------------- *)
(* matrix.rs: the receipt handler                                          *)
(* ---------------------------------------------------------------------- *)
\* for (user_id, _) in users: the logged-in user is passed over, the first
\* other user sends the Receipt and ends the loop
RECURSIVE read_by_other(_, _, _, _)
read_by_other(room_id, event_id, users, own_user) ==
    IF users = << >> THEN << >>
    ELSE IF own_user = Some(Head(users))
    THEN read_by_other(room_id, event_id, Tail(users), own_user)
    ELSE << ReceiptEvent(room_id, event_id) >>

\* for (event_id, receipts) in content.0: an event id without Read receipts
\* is passed over; content is the map in the order of its keys
RECURSIVE receipts_of(_, _, _)
receipts_of(room_id, content, own_user) ==
    IF content = << >> THEN << >>
    ELSE LET entry == Head(content)
         IN  (IF entry.read = None THEN << >>
              ELSE read_by_other(room_id, entry.event_id, entry.read[1], own_user))
                 \o receipts_of(room_id, Tail(content), own_user)

\* the handler without the test of the room's state
receipt_handler_any_state(state, room_id, content, own_user) ==
    receipts_of(room_id, content, own_user)

\* the handler of SyncEphemeralRoomEvent<ReceiptEventContent>
receipt_handler(state, room_id, content, own_user) ==
    IF state # "Joined" THEN << >> ELSE receipts_of(room_id, content, own_user)

(* ---------------------------------------------------------------------- *)
(* main.rs: run_app seeding the App from the room logs                     *)
(* ---------------------------------------------------------------------- *)
\* room_key.replace('_', ":")
KeyToRoom(room_key) == [i \in DOMAIN room_key |-> IF room_key[i] = "_" THEN ":" ELSE room_key[i]]

\* the push of one persisted record
seed_record(a, room_id, record) ==
    IF record.attachment_path # None
    THEN push_attachment_with_time(a, room_id, record.event_id, record.timestamp, record.sender,
                                   IF record.attachment_kind # None
                                   THEN record.attachment_kind[1] ELSE "file",
                                   IF record.attachment_name # None
                                   THEN record.attachment_name[1] ELSE record.body,
                                   record.attachment_path[1])
    ELSE push_message_with_time(a, room_id, record.event_id, record.timestamp, record.sender,
                                record.body)

RECURSIVE seed_records(_, _, _)
seed_records(a, room_id, records) ==
    IF records = << >> THEN a
    ELSE seed_records(seed_record(a, room_id, Head(records)), room_id, Tail(records))

\* for (room_key, mut records) in persisted: sort by timestamp, push
RECURSIVE seed_rooms(_, _)
seed_rooms(a, pairs) ==
    IF pairs = {} THEN a
    ELSE LET pair == CHOOSE p \in pairs : TRUE
         IN  seed_rooms(seed_records(a, KeyToRoom(pair[1]), sort_by_key(pair[2])),
                        pairs \ {pair})

\* app.last_seen_ts.entry(room_id).or_insert(ts) for every last_message_ts
seed_last_seen(a) ==
    [a EXCEPT !.last_seen_ts = [k \in DOMAIN @ \cup DOMAIN a.last_message_ts |->
                                   IF k \in DOMAIN @ THEN @[k] ELSE a.last_message_ts[k]]]

(* ---------------------------------------------------------------------- *)
(* State                                                                   *)
(* ---------------------------------------------------------------------- *)
VARIABLES
    \* the message store
    dirs,       \* room directories under the messages directory
    files,      \* room key -> the log file of the room
    writer,     \* room key -> the passphrase its log file was last written with
    created,    \* room keys whose log did not exist at start
    hist,       \* room key -> the records of the appends that returned Ok
    last,       \* the last storage call: its kind and whether it returned Ok
    ops,        \* number of storage calls made
    \* the envelope codec exercised on its own
    cPass,      \* the passphrase of the encryption
    cMsg,       \* the byte string encrypted
    cFile,      \* Option: the bytes write_encrypted wrote
    cValue,     \* Option: the EncryptedValue encrypt_value returned
    cOut,       \* the last decryption: form, passphrase used, result
    \* the protocol task
    pc,         \* where start_sync stands
    joined,     \* client.joined_rooms() after the initial sync
    idx,        \* position of backfill in the joined rooms
    last_ts,    \* the stored latest timestamp of the room being backfilled
    from,       \* Option: the pagination token of the next request
    collected,  \* the items collected for the room being backfilled
    pageLeft,   \* events of the current chunk not yet iterated over
    pageEnd,    \* Option: the end token of the current chunk
    budget,     \* events the homeserver may still return in this run
    evq,        \* the event queue to the UI: everything sent on evt_tx
    seen,       \* what the homeserver has answered to the backfill of the current room
    anchor,     \* room -> Option: the stored latest timestamp backfill started from
    backfilled, \* positions in evq of the events backfill published
    \* the UI loop
    app,        \* the App of run_app
    notified,   \* number of calls of notify_send
    uiDone,     \* whether the UI has processed BackfillDone
    uiSteps,    \* number of events the UI has taken from the queue
    \* device verification
    sas_state,  \* Option: the SAS held in the slot shared by the tasks
    reqs,       \* the verification requests made, each with the task following it
    sass,       \* request -> the SAS started from it, as the protocol library holds it
    watchers,   \* the tasks spawned by start_sas_flow
    calls,      \* the calls of confirm and mismatch made on a SAS
    published,  \* request -> the events sent on evt_tx for it, in the order sent
    cmds,       \* number of verification commands handled
    \* the channels between the UI loop and the protocol task
    evt_q,      \* the events sent on evt_tx and not yet received
    cmd_q,      \* the commands sent on cmd_tx and not yet received
    evtSent,    \* producer -> number of events it has sent
    evtGot,     \* the events the UI loop has received
    cmdSent,    \* number of commands the UI loop has sent
    cmdGot,     \* the commands the command loop has handled
    ui,         \* run_app: running or returned
    proto,      \* where the task of start_sync stands
    sync_task,  \* the task of the continuous sync
    runtime,    \* the tokio runtime of main: up or down
    \* the configuration
    cfgAccounts, \* cfg.accounts
    cfgIn,      \* cfg.accounts as load_config returned them
    cfgRes,     \* Option: what decrypt_sessions returned
    cfgStep,    \* how far main has come with the configuration
    cfgPass,    \* the passphrase entered
    cfgActive,  \* cfg.active
    cfgSaved,   \* Option: the document save_config wrote last
    \* the rooms of the client
    clientRooms, \* room -> what the client knows of it
    roomCmds,   \* number of room commands handled
    \* the start of the UI loop next to the protocol task
    uiPc,       \* where run_app stands
    protoPc,    \* where the spawned start_sync stands
    toRead,     \* the room logs load_all_messages has yet to read
    persisted,  \* the (room key, records) pairs load_all_messages has read
    \* the handlers the sync task runs
    handlers,   \* the invocations of the live message handler that have not returned
    delivered,  \* the messages the sync task has called the handler with
    liveSent,   \* the positions in evq of the events the live handlers published
    \* the receipt handler on one receipt event
    rcIn,       \* the event the handler is called with: room state and content
    rcOut,      \* the Receipt events the handler has published, None before it ran
    \* the directory of one room's log and the room id it is read back under
    rkRoom,     \* the room id of the records
    rkDir,      \* the name of the directory the records are stored in, None before
    rkSeed      \* the room id run_app seeds the log under, None before

storeVars == << dirs, files, writer, created, hist, last, ops >>
codecVars == << cPass, cMsg, cFile, cValue, cOut >>
syncVars == << pc, joined, idx, last_ts, from, collected, pageLeft, pageEnd, budget, evq,
              seen, anchor, backfilled >>
uiVars == << app, notified, uiDone, uiSteps >>
sasVars == << sas_state, reqs, sass, watchers, calls, published, cmds >>
brokerVars == << evt_q, cmd_q, evtSent, evtGot, cmdSent, cmdGot, ui, proto, sync_task, runtime >>
cfgVars == << cfgAccounts, cfgIn, cfgRes, cfgStep, cfgPass, cfgActive, cfgSaved >>
roomVars == << clientRooms, roomCmds >>
startVars == << uiPc, protoPc, toRead, persisted >>
liveVars == << handlers, delivered, liveSent >>
rcVars == << rcIn, rcOut >>
rkVars == << rkRoom, rkDir, rkSeed >>
lateVars == << sasVars, brokerVars, cfgVars, roomVars, startVars, liveVars, rcVars, rkVars >>
vars == << storeVars, codecVars, syncVars, uiVars, lateVars >>

(* ---------------------------------------------------------------------- *)
(* The message store driven through its API                                *)
(* ---------------------------------------------------------------------- *)
\* Logs found on disk at start: none, a log an earlier run wrote, or a log
\* in the newline-delimited layout.
EarlierLog == File(write_encrypted("hunter2", to_vec(<< TextRecord(1, Some("$e1")) >>), 0, 0))
LinesLog == File(write_encrypted("hunter2", JsonLines(<< TextRecord(1, Some("$e1")) >>), 0, 0))

\* nothing asked of the homeserver yet: the last answer of room.messages,
\* the events of it not iterated over, whether an event (old) or a room
\* message (stop) no newer than the stored latest was iterated over, and
\* the largest timestamp iterated over
NothingSeen == [answer |-> "none", unexamined |-> 0, old |-> FALSE, stop |-> FALSE, max |-> 0]

NoCall == [op |-> "none", ok |-> TRUE, room |-> R1]
NoDecrypt == [form |-> "none"]

StoreInit ==
    /\ files \in [RoomKeys -> {NoFile, EarlierLog, LinesLog}]
    /\ files[RoomKey(R2)] = NoFile
    /\ dirs = {key \in RoomKeys : files[key].exists}
    /\ writer = [key \in RoomKeys |-> "hunter2"]
    /\ created = {key \in RoomKeys : ~files[key].exists}
    /\ hist = [key \in RoomKeys |-> << >>]
    /\ last = NoCall
    /\ ops = 0
    \* the codec is not exercised
    /\ cPass = "hunter2"
    /\ cMsg = << >>
    /\ cFile = None
    /\ cValue = None
    /\ cOut = NoDecrypt
    \* the protocol task is not running
    /\ pc = "off"
    /\ joined = << >>
    /\ idx = 0
    /\ last_ts = 0
    /\ from = None
    /\ collected = << >>
    /\ pageLeft = 0
    /\ pageEnd = None
    /\ budget = 0
    /\ evq = << >>
    /\ seen = NothingSeen
    /\ anchor = [r \in RoomIds |-> None]
    /\ backfilled = {}
    \* the UI is not running
    /\ app = AppNew
    /\ notified = 0
    /\ uiDone = FALSE
    /\ uiSteps = 0
    /\ sas_state = None
    /\ reqs = << >>
    /\ sass = [s \in 1..MaxCommands |-> NoSas]
    /\ watchers = [s \in 1..MaxCommands |-> << >>]
    /\ published = [r \in 1..MaxCommands |-> << >>]
    /\ calls = << >>
    /\ cmds = 0
    /\ evt_q = << >>
    /\ cmd_q = << >>
    /\ evtSent = [p \in Producers |-> 0]
    /\ evtGot = << >>
    /\ cmdSent = 0
    /\ cmdGot = << >>
    /\ ui = "running"
    /\ proto = "startup"
    /\ sync_task = "none"
    /\ runtime = "up"
    /\ cfgAccounts = << >>
    /\ cfgIn = << >>
    /\ cfgRes = None
    /\ cfgStep = "off"
    /\ cfgPass = "hunter2"
    /\ cfgActive = None
    /\ cfgSaved = None
    /\ clientRooms = [r \in RoomIds |-> NoRoom]
    /\ roomCmds = 0
    /\ uiPc = "off"
    /\ protoPc = "off"
    /\ toRead = {}
    /\ persisted = {}
    /\ handlers = {}
    /\ delivered = {}
    /\ liveSent = {}
    /\ rcIn = [state |-> "Joined", content |-> << >>, own_user |-> None]
    /\ rcOut = None
    /\ rkRoom = R1
    /\ rkDir = None
    /\ rkSeed = None

StoreAppend(room_id, passphrase, record, saltSeed, nonceSeed, ioOk) ==
    LET out == append_message(dirs, files, passphrase, room_id, record, saltSeed, nonceSeed, ioOk)
        key == RoomKey(room_id)
    IN  /\ ops < MaxOps
        /\ ops' = ops + 1
        /\ dirs' = out.dirs
        /\ files' = out.files
        /\ writer' = IF out.files # files THEN [writer EXCEPT ![key] = passphrase] ELSE writer
        /\ hist' = IF out.res.ok THEN [hist EXCEPT ![key] = Append(@, record)] ELSE hist
        /\ last' = [op |-> "append", ok |-> out.res.ok, room |-> room_id]
        /\ UNCHANGED << created, codecVars, syncVars, uiVars, lateVars >>

StoreNext ==
    \E room_id \in RoomIds, passphrase \in Passphrases, record \in Records,
       saltSeed \in StoreSeeds, nonceSeed \in StoreSeeds, ioOk \in BOOLEAN :
       StoreAppend(room_id, passphrase, record, saltSeed, nonceSeed, ioOk)

SpecStore == StoreInit /\ [][StoreNext]_vars

(* ---------------------------------------------------------------------- *)
(* The envelope codec on its own                                           *)
(* ---------------------------------------------------------------------- *)
RECURSIVE ByteStrings(_)
ByteStrings(n) ==
    IF n = 0 THEN {<< >>}
    ELSE ByteStrings(n - 1) \cup
         {Append(m, RawByte(v)) : m \in {x \in ByteStrings(n - 1) : Len(x) = n - 1}, v \in {0, 1}}

CodecInit ==
    /\ cPass \in Passphrases
    /\ cMsg \in ByteStrings(MaxMsgLen)
    /\ cFile = None
    /\ cValue = None
    /\ cOut = NoDecrypt
    \* the message store is not exercised
    /\ files = [key \in RoomKeys |-> NoFile]
    /\ dirs = {}
    /\ writer = [key \in RoomKeys |-> "hunter2"]
    /\ created = RoomKeys
    /\ hist = [key \in RoomKeys |-> << >>]
    /\ last = NoCall
    /\ ops = 0
    \* the protocol task is not running
    /\ pc = "off"
    /\ joined = << >>
    /\ idx = 0
    /\ last_ts = 0
    /\ from = None
    /\ collected = << >>
    /\ pageLeft = 0
    /\ pageEnd = None
    /\ budget = 0
    /\ evq = << >>
    /\ seen = NothingSeen
    /\ anchor = [r \in RoomIds |-> None]
    /\ backfilled = {}
    \* the UI is not running
    /\ app = AppNew
    /\ notified = 0
    /\ uiDone = FALSE
    /\ uiSteps = 0
    /\ sas_state = None
    /\ reqs = << >>
    /\ sass = [s \in 1..MaxCommands |-> NoSas]
    /\ watchers = [s \in 1..MaxCommands |-> << >>]
    /\ published = [r \in 1..MaxCommands |-> << >>]
    /\ calls = << >>
    /\ cmds = 0
    /\ evt_q = << >>
    /\ cmd_q = << >>
    /\ evtSent = [p \in Producers |-> 0]
    /\ evtGot = << >>
    /\ cmdSent = 0
    /\ cmdGot = << >>
    /\ ui = "running"
    /\ proto = "startup"
    /\ sync_task = "none"
    /\ runtime = "up"
    /\ cfgAccounts = << >>
    /\ cfgIn = << >>
    /\ cfgRes = None
    /\ cfgStep = "off"
    /\ cfgPass = "hunter2"
    /\ cfgActive = None
    /\ cfgSaved = None
    /\ clientRooms = [r \in RoomIds |-> NoRoom]
    /\ roomCmds = 0
    /\ uiPc = "off"
    /\ protoPc = "off"
    /\ toRead = {}
    /\ persisted = {}
    /\ handlers = {}
    /\ delivered = {}
    /\ liveSent = {}
    /\ rcIn = [state |-> "Joined", content |-> << >>, own_user |-> None]
    /\ rcOut = None
    /\ rkRoom = R1
    /\ rkDir = None
    /\ rkSeed = None

CodecWrite(saltSeed, nonceSeed) ==
    /\ cFile' = Some(write_encrypted(cPass, cMsg, saltSeed, nonceSeed))
    /\ UNCHANGED << cPass, cMsg, cValue, cOut, storeVars, syncVars, uiVars, lateVars >>

CodecRead(passphrase) ==
    /\ cFile # None
    /\ cOut' = [form |-> "file", pass |-> passphrase, res |-> read_encrypted(cFile[1], passphrase)]
    /\ UNCHANGED << cPass, cMsg, cFile, cValue, storeVars, syncVars, uiVars, lateVars >>

CodecEncryptValue(saltSeed, nonceSeed) ==
    /\ cValue' = Some(encrypt_value(cPass, cMsg, saltSeed, nonceSeed))
    /\ UNCHANGED << cPass, cMsg, cFile, cOut, storeVars, syncVars, uiVars, lateVars >>

CodecDecryptValue(passphrase) ==
    /\ cValue # None
    /\ cOut' = [form |-> "value", pass |-> passphrase, res |-> decrypt_value(passphrase, cValue[1])]
    /\ UNCHANGED << cPass, cMsg, cFile, cValue, storeVars, syncVars, uiVars, lateVars >>

CodecNext ==
    \/ \E saltSeed \in RngSeeds, nonceSeed \in RngSeeds : CodecWrite(saltSeed, nonceSeed)
    \/ \E passphrase \in Passphrases : CodecRead(passphrase)
    \/ \E saltSeed \in RngSeeds, nonceSeed \in RngSeeds : CodecEncryptValue(saltSeed, nonceSeed)
    \/ \E passphrase \in Passphrases : CodecDecryptValue(passphrase)

SpecCodec == CodecInit /\ [][CodecNext]_vars

(* ---------------------------------------------------------------------- *)
(* matrix.rs: start_sync up to the registration of the live handlers       *)
(* ---------------------------------------------------------------------- *)
\* Logs found on disk at start: a log of an earlier run of this account
\* whose latest record has timestamp 1, or a log written under another
\* passphrase.
SyncedRecord == StoredMessage(1, PeerUser, "yo", Some("$text1"), None, None)
SyncedLog == File(write_encrypted(RunPassphrase, to_vec(<< SyncedRecord >>), 0, 0))
ForeignLog == File(write_encrypted("wrong", to_vec(<< SyncedRecord >>), 0, 0))

InvitedAtStart == << >>

SyncInit ==
    /\ joined \in { << >>, << R1 >>, << R2, R1 >> }
    /\ files \in [RoomKeys -> {NoFile, SyncedLog, ForeignLog}]
    /\ \A r \in RoomIds : (\A i \in DOMAIN joined : joined[i] # r) => files[RoomKey(r)] = NoFile
    /\ Len(joined) = 2 => files[RoomKey(joined[2])] = SyncedLog
    /\ dirs = {key \in RoomKeys : files[key].exists}
    /\ writer = [key \in RoomKeys |-> IF files[key] = ForeignLog THEN "wrong" ELSE RunPassphrase]
    /\ created = {key \in RoomKeys : ~files[key].exists}
    /\ hist = [key \in RoomKeys |-> << >>]
    /\ last = NoCall
    /\ ops = 0
    /\ pc = "sync_once"
    /\ idx = 0
    /\ last_ts = 0
    /\ from = None
    /\ collected = << >>
    /\ pageLeft = 0
    /\ pageEnd = None
    /\ budget = MaxEvents
    /\ evq = << >>
    /\ seen = NothingSeen
    /\ anchor = [r \in RoomIds |-> None]
    /\ backfilled = {}
    \* the codec is not exercised
    /\ cPass = "hunter2"
    /\ cMsg = << >>
    /\ cFile = None
    /\ cValue = None
    /\ cOut = NoDecrypt
    \* the UI is not running
    /\ app = AppNew
    /\ notified = 0
    /\ uiDone = FALSE
    /\ uiSteps = 0
    /\ sas_state = None
    /\ reqs = << >>
    /\ sass = [s \in 1..MaxCommands |-> NoSas]
    /\ watchers = [s \in 1..MaxCommands |-> << >>]
    /\ published = [r \in 1..MaxCommands |-> << >>]
    /\ calls = << >>
    /\ cmds = 0
    /\ evt_q = << >>
    /\ cmd_q = << >>
    /\ evtSent = [p \in Producers |-> 0]
    /\ evtGot = << >>
    /\ cmdSent = 0
    /\ cmdGot = << >>
    /\ ui = "running"
    /\ proto = "startup"
    /\ sync_task = "none"
    /\ runtime = "up"
    /\ cfgAccounts = << >>
    /\ cfgIn = << >>
    /\ cfgRes = None
    /\ cfgStep = "off"
    /\ cfgPass = "hunter2"
    /\ cfgActive = None
    /\ cfgSaved = None
    /\ clientRooms = [r \in RoomIds |-> NoRoom]
    /\ roomCmds = 0
    /\ uiPc = "off"
    /\ protoPc = "off"
    /\ toRead = {}
    /\ persisted = {}
    /\ handlers = {}
    /\ delivered = {}
    /\ liveSent = {}
    /\ rcIn = [state |-> "Joined", content |-> << >>, own_user |-> None]
    /\ rcOut = None
    /\ rkRoom = R1
    /\ rkDir = None
    /\ rkSeed = None

\* client.sync_once; its result is dropped
SyncOnce ==
    /\ pc = "sync_once"
    /\ pc' = "publish_rooms"
    /\ UNCHANGED << joined, idx, last_ts, from, collected, pageLeft, pageEnd, budget, evq,
                    seen, anchor, backfilled, storeVars, codecVars, uiVars, lateVars >>

PublishRooms ==
    /\ pc = "publish_rooms"
    /\ evq' = Append(evq, publish_rooms(joined, InvitedAtStart))
    /\ pc' = "backfill"
    /\ UNCHANGED << joined, idx, last_ts, from, collected, pageLeft, pageEnd, budget,
                    seen, anchor, backfilled, storeVars, codecVars, uiVars, lateVars >>

\* backfill_since_last_seen returning at once to a start_sync that goes on
\* without publishing BackfillDone
BackfillEnter_unannounced(dirOk) ==
    /\ pc = "backfill"
    /\ pc' = IF dirOk THEN "room" ELSE "live"
    /\ idx' = 1
    /\ UNCHANGED << joined, last_ts, from, collected, pageLeft, pageEnd, budget, evq,
                    seen, anchor, backfilled, storeVars, codecVars, uiVars, lateVars >>

\* backfill_since_last_seen: messages_dir, and the return when it fails
BackfillEnter(dirOk) ==
    /\ pc = "backfill"
    /\ pc' = IF dirOk THEN "room" ELSE "backfill_done"
    /\ idx' = 1
    /\ UNCHANGED << joined, last_ts, from, collected, pageLeft, pageEnd, budget, evq,
                    seen, anchor, backfilled, storeVars, codecVars, uiVars, lateVars >>

\* the loop over the joined rooms asking for the history of every room,
\* from timestamp 0 where no latest is stored
BackfillRoom_every_room ==
    /\ pc = "room"
    /\ idx <= Len(joined)
    /\ LET room_id == joined[idx]
           latest == latest_room_timestamp(files, room_id, RunPassphrase)
       IN  /\ last_ts' = IF latest.ok /\ latest.val # None THEN latest.val[1] ELSE 0
           /\ anchor' = [anchor EXCEPT ![room_id] = Some(last_ts')]
           /\ from' = None
           /\ collected' = << >>
           /\ pc' = "request"
           /\ UNCHANGED idx
    /\ UNCHANGED << joined, pageLeft, pageEnd, budget, evq, seen, backfilled,
                    storeVars, codecVars, uiVars, lateVars >>

\* the head of the loop over the joined rooms: a room without a readable
\* log, or with an empty one, is passed over
BackfillRoom ==
    /\ pc = "room"
    /\ idx <= Len(joined)
    /\ LET room_id == joined[idx]
           latest == latest_room_timestamp(files, room_id, RunPassphrase)
       IN  IF latest.ok /\ latest.val # None
           THEN /\ last_ts' = latest.val[1]
                /\ anchor' = [anchor EXCEPT ![room_id] = latest.val]
                /\ from' = None
                /\ collected' = << >>
                /\ pc' = "request"
                /\ UNCHANGED idx
           ELSE /\ idx' = idx + 1
                /\ UNCHANGED << pc, last_ts, anchor, from, collected >>
    /\ UNCHANGED << joined, pageLeft, pageEnd, budget, evq, seen, backfilled,
                    storeVars, codecVars, uiVars, lateVars >>

\* room.messages(options): limit 50, from the token of the page before
RequestPage(messages) ==
    /\ pc = "request"
    /\ seen' = [seen EXCEPT !.answer = IF ~messages.ok THEN "error"
                                       ELSE IF messages.n = 0 THEN "empty" ELSE "chunk",
                             !.unexamined = IF messages.ok THEN messages.n ELSE 0]
    /\ IF ~messages.ok \/ messages.n = 0
       THEN /\ pc' = "sort"
            /\ UNCHANGED << pageLeft, pageEnd, budget >>
       ELSE /\ messages.n <= PageLimit
            /\ messages.n <= budget
            /\ budget' = budget - messages.n
            /\ pageLeft' = messages.n
            /\ pageEnd' = messages.end
            /\ pc' = "examine"
    /\ UNCHANGED << joined, idx, last_ts, from, collected, evq, anchor, backfilled,
                    storeVars, codecVars, uiVars, lateVars >>

\* one turn of the loop over the chunk, and what follows the chunk
ExaminePage(event) ==
    /\ pc = "examine"
    /\ LET out == ExamineEvent(event, last_ts)
       IN  /\ collected' = IF out.item = None THEN collected ELSE Append(collected, out.item[1])
           /\ seen' = [answer |-> seen.answer,
                       unexamined |-> seen.unexamined - 1,
                       old |-> seen.old \/ event.origin_server_ts <= last_ts,
                       stop |-> seen.stop \/ (event.message /\ event.origin_server_ts <= last_ts),
                       max |-> IF event.origin_server_ts > seen.max
                               THEN event.origin_server_ts ELSE seen.max]
           /\ IF out.stop
              THEN /\ pc' = "sort"
                   /\ pageLeft' = 0
                   /\ UNCHANGED from
              ELSE IF pageLeft > 1
              THEN /\ pageLeft' = pageLeft - 1
                   /\ UNCHANGED << pc, from >>
              ELSE /\ pageLeft' = 0
                   /\ IF pageEnd # None
                      THEN /\ from' = pageEnd
                           /\ pc' = "request"
                      ELSE /\ pc' = "sort"
                           /\ UNCHANGED from
    /\ UNCHANGED << joined, idx, last_ts, pageEnd, budget, evq, anchor, backfilled,
                    storeVars, codecVars, uiVars, lateVars >>

SortCollected ==
    /\ pc = "sort"
    /\ collected' = sort_by_key(collected)
    /\ pc' = "emit"
    /\ UNCHANGED << joined, idx, last_ts, from, pageLeft, pageEnd, budget, evq, seen,
                    anchor, backfilled, storeVars, codecVars, uiVars, lateVars >>

\* one turn of the loop over the collected items: publish, then store;
\* the result of the store is dropped
EmitCollected(dirOk, ioOk) ==
    /\ pc = "emit"
    /\ collected # << >>
    /\ LET room_id == joined[idx]
           key == RoomKey(room_id)
           msg == Head(collected)
           out == StoreBackfillItem(dirs, files, RunPassphrase, room_id, msg, dirOk, ioOk)
           record == StoredMessage(msg.timestamp, msg.sender,
                                   IF msg.item = "Text" THEN msg.body ELSE msg.name,
                                   Some(msg.event_id), msg.reply_to,
                                   IF msg.item = "Text" THEN None
                                   ELSE Some([kind |-> msg.kind, name |-> msg.name, path |-> msg.path]))
       IN  /\ evq' = Append(evq, BackfillEvent(room_id, msg))
           /\ backfilled' = backfilled \cup {Len(evq) + 1}
           /\ dirs' = out.dirs
           /\ files' = out.files
           /\ writer' = IF out.files # files THEN [writer EXCEPT ![key] = RunPassphrase] ELSE writer
           /\ hist' = IF out.res.ok THEN [hist EXCEPT ![key] = Append(@, record)] ELSE hist
    /\ collected' = Tail(collected)
    /\ UNCHANGED << pc, joined, idx, last_ts, from, pageLeft, pageEnd, budget, seen, anchor,
                    created, last, ops, codecVars, uiVars, lateVars >>

\* the end of the body of the loop over the joined rooms
NextRoom ==
    /\ pc = "emit"
    /\ collected = << >>
    /\ idx' = idx + 1
    /\ pc' = "room"
    /\ seen' = NothingSeen
    /\ UNCHANGED << joined, last_ts, from, collected, pageLeft, pageEnd, budget, evq,
                    anchor, backfilled, storeVars, codecVars, uiVars, lateVars >>

\* backfill_since_last_seen returns after the last room
BackfillReturn ==
    /\ pc = "room"
    /\ idx > Len(joined)
    /\ pc' = "backfill_done"
    /\ UNCHANGED << joined, idx, last_ts, from, collected, pageLeft, pageEnd, budget, evq,
                    seen, anchor, backfilled, storeVars, codecVars, uiVars, lateVars >>

SendBackfillDone ==
    /\ pc = "backfill_done"
    /\ evq' = Append(evq, BackfillDone)
    /\ pc' = "live"
    /\ UNCHANGED << joined, idx, last_ts, from, collected, pageLeft, pageEnd, budget,
                    seen, anchor, backfilled, storeVars, codecVars, uiVars, lateVars >>

PageAnswers ==
    {PageError} \cup {Page(n, end) : n \in 0..MaxEvents, end \in {None, Some("next")}}

SyncNext ==
    \/ SyncOnce
    \/ PublishRooms
    \/ \E dirOk \in BOOLEAN : BackfillEnter(dirOk)
    \/ BackfillRoom
    \/ \E messages \in PageAnswers : RequestPage(messages)
    \/ \E event \in ServerEvents : ExaminePage(event)
    \/ SortCollected
    \/ \E dirOk \in BOOLEAN, ioOk \in BOOLEAN : EmitCollected(dirOk, ioOk)
    \/ NextRoom
    \/ BackfillReturn
    \/ SendBackfillDone

SpecSync == SyncInit /\ [][SyncNext]_vars

(* ---------------------------------------------------------------------- *)
(* main.rs: run_app draining an arbitrary event queue                      *)
(* ---------------------------------------------------------------------- *)
UiTimes == 1..MaxUiTs

UiRoomLists ==
    {publish_rooms(rooms, << >>).rooms : rooms \in { << >>, << R1 >>, << R2, R1 >> }}

UiMessages ==
    {MessageEvent(room_id, event_id, sender, "yo", ts, None) :
        room_id \in RoomIds, event_id \in EventIds, sender \in {OwnUser, PeerUser}, ts \in UiTimes}

UiAttachments ==
    {AttachmentEvent(room_id, event_id, sender, "pic.png", "attachments/pic.png", "image", ts, None) :
        room_id \in RoomIds, event_id \in EventIds, sender \in {OwnUser, PeerUser}, ts \in UiTimes}

UiInit ==
    /\ app \in {[AppNew EXCEPT !.own_user_id = own] : own \in {None, Some(OwnUser)}}
    /\ notified = 0
    /\ uiDone = FALSE
    /\ uiSteps = 0
    /\ sas_state = None
    /\ reqs = << >>
    /\ sass = [s \in 1..MaxCommands |-> NoSas]
    /\ watchers = [s \in 1..MaxCommands |-> << >>]
    /\ published = [r \in 1..MaxCommands |-> << >>]
    /\ calls = << >>
    /\ cmds = 0
    /\ evt_q = << >>
    /\ cmd_q = << >>
    /\ evtSent = [p \in Producers |-> 0]
    /\ evtGot = << >>
    /\ cmdSent = 0
    /\ cmdGot = << >>
    /\ ui = "running"
    /\ proto = "startup"
    /\ sync_task = "none"
    /\ runtime = "up"
    /\ cfgAccounts = << >>
    /\ cfgIn = << >>
    /\ cfgRes = None
    /\ cfgStep = "off"
    /\ cfgPass = "hunter2"
    /\ cfgActive = None
    /\ cfgSaved = None
    /\ clientRooms = [r \in RoomIds |-> NoRoom]
    /\ roomCmds = 0
    /\ uiPc = "off"
    /\ protoPc = "off"
    /\ toRead = {}
    /\ persisted = {}
    /\ handlers = {}
    /\ delivered = {}
    /\ liveSent = {}
    /\ rcIn = [state |-> "Joined", content |-> << >>, own_user |-> None]
    /\ rcOut = None
    /\ rkRoom = R1
    /\ rkDir = None
    /\ rkSeed = None
    \* neither the store nor the codec nor the protocol task is exercised
    /\ files = [key \in RoomKeys |-> NoFile]
    /\ dirs = {}
    /\ writer = [key \in RoomKeys |-> "hunter2"]
    /\ created = RoomKeys
    /\ hist = [key \in RoomKeys |-> << >>]
    /\ last = NoCall
    /\ ops = 0
    /\ cPass = "hunter2"
    /\ cMsg = << >>
    /\ cFile = None
    /\ cValue = None
    /\ cOut = NoDecrypt
    /\ pc = "off"
    /\ joined = << >>
    /\ idx = 0
    /\ last_ts = 0
    /\ from = None
    /\ collected = << >>
    /\ pageLeft = 0
    /\ pageEnd = None
    /\ budget = 0
    /\ evq = << >>
    /\ seen = NothingSeen
    /\ anchor = [r \in RoomIds |-> None]
    /\ backfilled = {}

\* MatrixEvent::Rooms
UiRooms(rooms) ==
    /\ uiSteps < MaxUiEvents
    /\ uiSteps' = uiSteps + 1
    /\ app' = update_rooms(app, rooms)
    /\ UNCHANGED << notified, uiDone, storeVars, codecVars, syncVars, lateVars >>

\* MatrixEvent::Message: the handler, then the notification
UiMessage(evt) ==
    /\ uiSteps < MaxUiEvents
    /\ uiSteps' = uiSteps + 1
    /\ app' = handle_incoming_message(app, evt.room_id, Some(evt.event_id), evt.timestamp,
                                      evt.sender, evt.body)
    /\ notified' = IF should_notify(app', evt.room_id, evt.sender) THEN notified + 1 ELSE notified
    /\ UNCHANGED << uiDone, storeVars, codecVars, syncVars, lateVars >>

\* MatrixEvent::Attachment: the handler, then the notification
UiAttachment(evt) ==
    /\ uiSteps < MaxUiEvents
    /\ uiSteps' = uiSteps + 1
    /\ app' = handle_incoming_attachment(app, evt.room_id, Some(evt.event_id), evt.timestamp,
                                         evt.sender, evt.kind, evt.name, evt.path)
    /\ notified' = IF should_notify(app', evt.room_id, evt.sender) THEN notified + 1 ELSE notified
    /\ UNCHANGED << uiDone, storeVars, codecVars, syncVars, lateVars >>

\* MatrixEvent::BackfillDone
UiBackfillDone ==
    /\ uiSteps < MaxUiEvents
    /\ uiSteps' = uiSteps + 1
    /\ app' = [app EXCEPT !.notifications_ready = TRUE]
    /\ uiDone' = TRUE
    /\ UNCHANGED << notified, storeVars, codecVars, syncVars, lateVars >>

\* the keys that move the room selection
UiKeyUp ==
    /\ app' = on_up(app)
    /\ UNCHANGED << notified, uiDone, uiSteps, storeVars, codecVars, syncVars, lateVars >>

UiKeyDown ==
    /\ app' = on_down(app)
    /\ UNCHANGED << notified, uiDone, uiSteps, storeVars, codecVars, syncVars, lateVars >>

UiNext ==
    \/ \E rooms \in UiRoomLists : UiRooms(rooms)
    \/ \E evt \in UiMessages : UiMessage(evt)
    \/ \E evt \in UiAttachments : UiAttachment(evt)
    \/ UiBackfillDone
    \/ UiKeyUp
    \/ UiKeyDown

SpecUI == UiInit /\ [][UiNext]_vars

\* KeyCode::Up with ALT
UiKeyAltUp ==
    /\ app' = on_message_up(app)
    /\ UNCHANGED << notified, uiDone, uiSteps, storeVars, codecVars, syncVars, lateVars >>

\* KeyCode::Down with ALT
UiKeyAltDown ==
    /\ app' = on_message_down(app)
    /\ UNCHANGED << notified, uiDone, uiSteps, storeVars, codecVars, syncVars, lateVars >>

\* the event loop with the keys that move the message selection
SelectNext ==
    \/ \E rooms \in UiRoomLists : UiRooms(rooms)
    \/ \E evt \in UiMessages : UiMessage(evt)
    \/ \E evt \in UiAttachments : UiAttachment(evt)
    \/ UiKeyUp
    \/ UiKeyDown
    \/ UiKeyAltUp
    \/ UiKeyAltDown

SpecSelect == UiInit /\ [][SelectNext]_vars

(* ---------------------------------------------------------------------- *)
(* Properties of the message store                                         *)
(* ---------------------------------------------------------------------- *)
(* matrix.rs: the verification commands and the tasks they spawn           *)
(* ---------------------------------------------------------------------- *)
SasInit ==
    /\ sas_state = None
    /\ reqs = << >>
    /\ sass = [s \in 1..MaxCommands |-> NoSas]
    /\ watchers = [s \in 1..MaxCommands |-> << >>]
    /\ published = [r \in 1..MaxCommands |-> << >>]
    /\ calls = << >>
    /\ cmds = 0
    /\ evt_q = << >>
    /\ cmd_q = << >>
    /\ evtSent = [p \in Producers |-> 0]
    /\ evtGot = << >>
    /\ cmdSent = 0
    /\ cmdGot = << >>
    /\ ui = "running"
    /\ proto = "startup"
    /\ sync_task = "none"
    /\ runtime = "up"
    /\ cfgAccounts = << >>
    /\ cfgIn = << >>
    /\ cfgRes = None
    /\ cfgStep = "off"
    /\ cfgPass = "hunter2"
    /\ cfgActive = None
    /\ cfgSaved = None
    /\ clientRooms = [r \in RoomIds |-> NoRoom]
    /\ roomCmds = 0
    /\ uiPc = "off"
    /\ protoPc = "off"
    /\ toRead = {}
    /\ persisted = {}
    /\ handlers = {}
    /\ delivered = {}
    /\ liveSent = {}
    /\ rcIn = [state |-> "Joined", content |-> << >>, own_user |-> None]
    /\ rcOut = None
    /\ rkRoom = R1
    /\ rkDir = None
    /\ rkSeed = None
    \* nothing else is exercised
    /\ files = [key \in RoomKeys |-> NoFile]
    /\ dirs = {}
    /\ writer = [key \in RoomKeys |-> "hunter2"]
    /\ created = RoomKeys
    /\ hist = [key \in RoomKeys |-> << >>]
    /\ last = NoCall
    /\ ops = 0
    /\ cPass = "hunter2"
    /\ cMsg = << >>
    /\ cFile = None
    /\ cValue = None
    /\ cOut = NoDecrypt
    /\ pc = "live"
    /\ evq = << >>
    /\ joined = << >>
    /\ idx = 0
    /\ last_ts = 0
    /\ from = None
    /\ collected = << >>
    /\ pageLeft = 0
    /\ pageEnd = None
    /\ budget = 0
    /\ seen = NothingSeen
    /\ anchor = [r \in RoomIds |-> None]
    /\ backfilled = {}
    /\ app = AppNew
    /\ notified = 0
    /\ uiDone = FALSE
    /\ uiSteps = 0

\* every task has read the changes that reached it; the library reports
\* the next change of a request or a SAS in such a state
Quiet ==
    /\ \A r \in DOMAIN reqs : reqs[r].alive => reqs[r].stream = << >>
    /\ \A s \in DOMAIN watchers : \A w \in DOMAIN watchers[s] :
            watchers[s][w].alive => watchers[s][w].stream = << >>

SasRest == << pc, evq, joined, idx, last_ts, from, collected, pageLeft, pageEnd, budget, seen,
              anchor, backfilled, storeVars, codecVars, uiVars, brokerVars, cfgVars, roomVars, startVars, liveVars,
        rcVars, rkVars >>

\* MatrixCommand::StartVerification; requestOk = FALSE is the identity
\* lookup or the request failing
CmdStartVerification(requestOk) ==
    /\ cmds < MaxCommands
    /\ cmds' = cmds + 1
    /\ IF requestOk
       THEN /\ reqs' = Append(reqs, NewRequest)
            /\ published' = [published EXCEPT ![Len(reqs) + 1] =
                                Append(@, VerificationStatus("Waiting for other device..."))]
       ELSE UNCHANGED << reqs, published >>
    /\ UNCHANGED << sas_state, sass, watchers, calls, SasRest >>

\* the other device accepts the request
EnvReady(r) ==
    /\ Quiet
    /\ r \in DOMAIN reqs
    /\ reqs[r].st = "created"
    /\ reqs' = [reqs EXCEPT ![r].st = "ready", ![r].stream = Append(@, "Ready")]
    /\ UNCHANGED << sas_state, sass, watchers, calls, cmds, published, SasRest >>

\* the other device starts the SAS
EnvTransitioned(r) ==
    /\ Quiet
    /\ r \in DOMAIN reqs
    /\ reqs[r].st = "ready"
    /\ reqs' = [reqs EXCEPT ![r].st = "transitioned", ![r].stream = Append(@, "Transitioned")]
    /\ sass' = [sass EXCEPT ![r] = NewSas]
    /\ UNCHANGED << sas_state, watchers, calls, cmds, published, SasRest >>

\* the request is cancelled before a SAS was started
EnvRequestCancelled(r) ==
    /\ Quiet
    /\ r \in DOMAIN reqs
    /\ reqs[r].st \in {"created", "ready"}
    /\ reqs' = [reqs EXCEPT ![r].st = "cancelled", ![r].stream = Append(@, "Cancelled")]
    /\ UNCHANGED << sas_state, sass, watchers, calls, cmds, published, SasRest >>

\* the request follows its SAS into Done or Cancelled
EnvRequestFollows(r) ==
    /\ Quiet
    /\ r \in DOMAIN reqs
    /\ reqs[r].st = "transitioned"
    /\ sass[r].st \in {"done", "cancelled"}
    /\ reqs[r].alive
    /\ reqs' = [reqs EXCEPT ![r].st = sass[r].st,
                            ![r].stream = Append(@, IF sass[r].st = "done" THEN "Done" ELSE "Cancelled")]
    /\ UNCHANGED << sas_state, sass, watchers, calls, cmds, published, SasRest >>

\* one turn of the loop over request.changes(); startOk is what
\* request.start_sas() answers for a request that is Ready
WatchRequest(r, startOk) ==
    /\ r \in DOMAIN reqs
    /\ reqs[r].alive
    /\ reqs[r].stream # << >>
    /\ LET state == Head(reqs[r].stream)
           rest == [reqs EXCEPT ![r].stream = Tail(@)]
       IN  IF state = "Transitioned"
           THEN LET flow == start_sas_flow(sas_state, sass, watchers, r)
                IN  /\ reqs' = [rest EXCEPT ![r].started = TRUE]
                    /\ published' = [published EXCEPT ![r] = Append(@, VerificationStatus("SAS started. Waiting for emojis..."))]
                    /\ sas_state' = flow.slot
                    /\ sass' = flow.sass
                    /\ watchers' = flow.watchers
           ELSE IF state = "Ready"
           THEN IF reqs[r].started
                THEN /\ reqs' = rest
                     /\ UNCHANGED << published, sas_state, sass, watchers >>
                ELSE /\ published' = [published EXCEPT ![r] = Append(@, VerificationStatus("SAS requested. Waiting for emojis..."))]
                     /\ IF startOk /\ reqs[r].st = "ready"
                        THEN LET flow == start_sas_flow(sas_state, [sass EXCEPT ![r] = NewSas],
                                                        watchers, r)
                             IN  /\ reqs' = [rest EXCEPT ![r].st = "transitioned",
                                                         ![r].stream = Append(@, "Transitioned"),
                                                         ![r].started = TRUE]
                                 /\ sas_state' = flow.slot
                                 /\ sass' = flow.sass
                                 /\ watchers' = flow.watchers
                        ELSE /\ reqs' = rest
                             /\ UNCHANGED << sas_state, sass, watchers >>
           ELSE IF state = "Cancelled"
           THEN /\ published' = [published EXCEPT ![r] = Append(@, VerificationCancelled("cancelled"))]
                /\ reqs' = [rest EXCEPT ![r].alive = FALSE]
                /\ UNCHANGED << sas_state, sass, watchers >>
           ELSE /\ published' = [published EXCEPT ![r] = Append(@, VerificationDone)]
                /\ reqs' = [rest EXCEPT ![r].alive = FALSE]
                /\ UNCHANGED << sas_state, sass, watchers >>
    /\ UNCHANGED << calls, cmds, SasRest >>

\* both devices have accepted: the keys are exchanged
EnvKeysExchanged(s) ==
    /\ Quiet
    /\ sass[s].st = "started"
    /\ sass[s].accepted
    /\ sass' = [sass EXCEPT ![s].st = "keys"]
    /\ watchers' = Notify(watchers, s, "KeysExchanged")
    /\ UNCHANGED << sas_state, reqs, calls, cmds, published, SasRest >>

\* both users have confirmed
EnvSasDone(s) ==
    /\ Quiet
    /\ sass[s].st = "keys"
    /\ sass[s].confirmed
    /\ sass' = [sass EXCEPT ![s].st = "done"]
    /\ watchers' = Notify(watchers, s, "Done")
    /\ UNCHANGED << sas_state, reqs, calls, cmds, published, SasRest >>

\* the other device cancels, or the flow times out
EnvSasCancelled(s) ==
    /\ Quiet
    /\ sass[s].st \in {"started", "keys"}
    /\ sass' = [sass EXCEPT ![s].st = "cancelled"]
    /\ watchers' = Notify(watchers, s, "Cancelled")
    /\ UNCHANGED << sas_state, reqs, calls, cmds, published, SasRest >>

\* one turn of the loop over sas.changes() in the task of start_sas_flow
WatchSas(s, w) ==
    /\ w \in DOMAIN watchers[s]
    /\ watchers[s][w].alive
    /\ watchers[s][w].stream # << >>
    /\ LET out == SasStateEvent(Head(watchers[s][w].stream))
       IN  /\ published' = IF out.event = None THEN published
                           ELSE [published EXCEPT ![s] = Append(@, out.event[1])]
           /\ watchers' = [watchers EXCEPT ![s][w].stream = Tail(@),
                                           ![s][w].alive = ~out.break]
    /\ UNCHANGED << sas_state, reqs, sass, calls, cmds, SasRest >>

\* MatrixCommand::ConfirmVerification
CmdConfirmVerification ==
    /\ cmds < MaxCommands
    /\ cmds' = cmds + 1
    /\ sas_state' = None
    /\ IF sas_state # None
       THEN LET s == sas_state[1]
            IN  /\ calls' = Append(calls, [call |-> "confirm", sas |-> s, st |-> sass[s].st])
                /\ sass' = IF sass[s].st = "keys" THEN [sass EXCEPT ![s].confirmed = TRUE] ELSE sass
                /\ UNCHANGED watchers
       ELSE UNCHANGED << calls, sass, watchers >>
    /\ UNCHANGED << reqs, published, SasRest >>

\* MatrixCommand::CancelVerification
CmdCancelVerification ==
    /\ cmds < MaxCommands
    /\ cmds' = cmds + 1
    /\ sas_state' = None
    /\ IF sas_state # None
       THEN LET s == sas_state[1]
            IN  /\ calls' = Append(calls, [call |-> "mismatch", sas |-> s, st |-> sass[s].st])
                /\ IF sass[s].st \in {"started", "keys"}
                   THEN /\ sass' = [sass EXCEPT ![s].st = "cancelled"]
                        /\ watchers' = Notify(watchers, s, "Cancelled")
                   ELSE UNCHANGED << sass, watchers >>
       ELSE UNCHANGED << calls, sass, watchers >>
    /\ UNCHANGED << reqs, published, SasRest >>

SasNext ==
    \/ \E requestOk \in BOOLEAN : CmdStartVerification(requestOk)
    \/ \E r \in 1..MaxCommands : EnvReady(r)
    \/ \E r \in 1..MaxCommands : EnvTransitioned(r)
    \/ \E r \in 1..MaxCommands : EnvRequestCancelled(r)
    \/ \E r \in 1..MaxCommands : EnvRequestFollows(r)
    \/ \E r \in 1..MaxCommands, startOk \in BOOLEAN : WatchRequest(r, startOk)
    \/ \E s \in 1..MaxCommands : EnvKeysExchanged(s)
    \/ \E s \in 1..MaxCommands : EnvSasDone(s)
    \/ \E s \in 1..MaxCommands : EnvSasCancelled(s)
    \/ \E s \in 1..MaxCommands, w \in 1..2 : WatchSas(s, w)
    \/ CmdConfirmVerification
    \/ CmdCancelVerification

SpecSas == SasInit /\ [][SasNext]_vars

(* ---------------------------------------------------------------------- *)
(* main.rs, matrix.rs: the UI loop and the protocol task on the channels   *)
(* ---------------------------------------------------------------------- *)
BrokerInit ==
    /\ evt_q = << >>
    /\ cmd_q = << >>
    /\ evtSent = [p \in Producers |-> 0]
    /\ evtGot = << >>
    /\ cmdSent = 0
    /\ cmdGot = << >>
    /\ ui = "running"
    /\ proto = "startup"
    /\ sync_task = "none"
    /\ runtime = "up"
    /\ cfgAccounts = << >>
    /\ cfgIn = << >>
    /\ cfgRes = None
    /\ cfgStep = "off"
    /\ cfgPass = "hunter2"
    /\ cfgActive = None
    /\ cfgSaved = None
    /\ clientRooms = [r \in RoomIds |-> NoRoom]
    /\ roomCmds = 0
    /\ uiPc = "off"
    /\ protoPc = "off"
    /\ toRead = {}
    /\ persisted = {}
    /\ handlers = {}
    /\ delivered = {}
    /\ liveSent = {}
    /\ rcIn = [state |-> "Joined", content |-> << >>, own_user |-> None]
    /\ rcOut = None
    /\ rkRoom = R1
    /\ rkDir = None
    /\ rkSeed = None
    \* nothing else is exercised
    /\ files = [key \in RoomKeys |-> NoFile]
    /\ dirs = {}
    /\ writer = [key \in RoomKeys |-> "hunter2"]
    /\ created = RoomKeys
    /\ hist = [key \in RoomKeys |-> << >>]
    /\ last = NoCall
    /\ ops = 0
    /\ cPass = "hunter2"
    /\ cMsg = << >>
    /\ cFile = None
    /\ cValue = None
    /\ cOut = NoDecrypt
    /\ pc = "off"
    /\ joined = << >>
    /\ idx = 0
    /\ last_ts = 0
    /\ from = None
    /\ collected = << >>
    /\ pageLeft = 0
    /\ pageEnd = None
    /\ budget = 0
    /\ evq = << >>
    /\ seen = NothingSeen
    /\ anchor = [r \in RoomIds |-> None]
    /\ backfilled = {}
    /\ app = AppNew
    /\ notified = 0
    /\ uiDone = FALSE
    /\ uiSteps = 0
    /\ sas_state = None
    /\ reqs = << >>
    /\ sass = [s \in 1..MaxCommands |-> NoSas]
    /\ watchers = [s \in 1..MaxCommands |-> << >>]
    /\ published = [r \in 1..MaxCommands |-> << >>]
    /\ calls = << >>
    /\ cmds = 0

BrokerRest == << storeVars, codecVars, syncVars, uiVars, sasVars, cfgVars, roomVars, startVars, liveVars,
        rcVars, rkVars >>

\* whether the task of a producer is running
Alive(p) ==
    /\ runtime = "up"
    /\ IF p = "start_sync" THEN proto \in {"startup", "loop"} ELSE sync_task = "running"

\* a producer whose send error ends its task
ProducerSend_failing(p) ==
    /\ Alive(p)
    /\ evtSent[p] < MaxSends
    /\ LET sent == send(evt_q, ui = "returned", [from |-> p, n |-> evtSent[p] + 1])
       IN  /\ evt_q' = sent.queue
           /\ IF sent.res.ok THEN UNCHANGED << proto, sync_task >>
              ELSE IF p = "start_sync" THEN proto' = "failed" /\ UNCHANGED sync_task
              ELSE sync_task' = "failed" /\ UNCHANGED proto
    /\ evtSent' = [evtSent EXCEPT ![p] = @ + 1]
    /\ UNCHANGED << cmd_q, evtGot, cmdSent, cmdGot, ui, runtime, BrokerRest >>

\* let _ = evt_tx.send(event): the result of the send is dropped
ProducerSend(p) ==
    /\ Alive(p)
    /\ evtSent[p] < MaxSends
    /\ LET sent == send(evt_q, ui = "returned", [from |-> p, n |-> evtSent[p] + 1])
       IN  evt_q' = sent.queue
    /\ evtSent' = [evtSent EXCEPT ![p] = @ + 1]
    /\ UNCHANGED << cmd_q, evtGot, cmdSent, cmdGot, ui, proto, sync_task, runtime, BrokerRest >>

\* start_sync has published the backfill and spawns the continuous sync
SpawnSync ==
    /\ runtime = "up"
    /\ proto = "startup"
    /\ proto' = "loop"
    /\ sync_task' = "running"
    /\ UNCHANGED << evt_q, cmd_q, evtSent, evtGot, cmdSent, cmdGot, ui, runtime, BrokerRest >>

\* one turn of while let Ok(evt) = evt_rx.try_recv()
UiTryRecv ==
    /\ ui = "running"
    /\ LET got == try_recv(evt_q)
       IN  /\ got.res.ok
           /\ evtGot' = Append(evtGot, got.res.val)
           /\ evt_q' = got.queue
    /\ UNCHANGED << cmd_q, evtSent, cmdSent, cmdGot, ui, proto, sync_task, runtime, BrokerRest >>

\* let _ = cmd_tx.send(cmd) in a key handler
UiSendCommand ==
    /\ ui = "running"
    /\ cmdSent < MaxCommands
    /\ LET sent == send(cmd_q, proto \notin {"startup", "loop"}, cmdSent + 1)
       IN  cmd_q' = sent.queue
    /\ cmdSent' = cmdSent + 1
    /\ UNCHANGED << evt_q, evtSent, evtGot, cmdGot, ui, proto, sync_task, runtime, BrokerRest >>

\* should_quit: run_app returns, evt_rx and cmd_tx are dropped
UiQuit ==
    /\ ui = "running"
    /\ ui' = "returned"
    /\ evt_q' = << >>
    /\ UNCHANGED << cmd_q, evtSent, evtGot, cmdSent, cmdGot, proto, sync_task, runtime, BrokerRest >>

\* one turn of while let Some(cmd) = cmd_rx.recv().await
ProtoRecv ==
    /\ runtime = "up"
    /\ proto = "loop"
    /\ LET got == recv(cmd_q, ui = "returned")
       IN  /\ got.ready
           /\ cmd_q' = got.queue
           /\ IF got.item = None
              THEN proto' = "await_sync" /\ UNCHANGED cmdGot
              ELSE cmdGot' = Append(cmdGot, got.item[1]) /\ UNCHANGED proto
    /\ UNCHANGED << evt_q, evtSent, evtGot, cmdSent, ui, sync_task, runtime, BrokerRest >>

\* client.sync returns: the continuous sync has met an error
SyncEnds ==
    /\ runtime = "up"
    /\ sync_task = "running"
    /\ sync_task' = "ended"
    /\ UNCHANGED << evt_q, cmd_q, evtSent, evtGot, cmdSent, cmdGot, ui, proto, runtime, BrokerRest >>

\* let _ = sync_task.await; Ok(())
ProtoJoin ==
    /\ runtime = "up"
    /\ proto = "await_sync"
    /\ sync_task = "ended"
    /\ proto' = "done"
    /\ UNCHANGED << evt_q, cmd_q, evtSent, evtGot, cmdSent, cmdGot, ui, sync_task, runtime,
                    BrokerRest >>

\* start_matrix and main return: the runtime is dropped and with it every
\* task that has not finished
RuntimeShutdown ==
    /\ ui = "returned"
    /\ runtime = "up"
    /\ runtime' = "down"
    /\ proto' = IF proto = "done" THEN proto ELSE "dropped"
    /\ sync_task' = IF sync_task = "running" THEN "dropped" ELSE sync_task
    /\ UNCHANGED << evt_q, cmd_q, evtSent, evtGot, cmdSent, cmdGot, ui, BrokerRest >>

BrokerNext ==
    \/ \E p \in Producers : ProducerSend(p)
    \/ SpawnSync
    \/ UiTryRecv
    \/ UiSendCommand
    \/ UiQuit
    \/ ProtoRecv
    \/ SyncEnds
    \/ ProtoJoin
    \/ RuntimeShutdown

SpecBroker == BrokerInit /\ [][BrokerNext]_vars

\* the tasks are scheduled, main returns once the UI has returned
SpecBrokerFair ==
    /\ SpecBroker
    /\ WF_vars(ProtoRecv)
    /\ WF_vars(ProtoJoin)
    /\ WF_vars(RuntimeShutdown)

(* ---------------------------------------------------------------------- *)
(* config.rs: decrypt_sessions on a loaded configuration                   *)
(* ---------------------------------------------------------------------- *)
RECURSIVE AccountLists(_)
AccountLists(n) ==
    IF n = 0 THEN {<< >>}
    ELSE AccountLists(n - 1) \cup
         {Append(l, a) : l \in {x \in AccountLists(n - 1) : Len(x) = n - 1}, a \in AccountConfigs}

ConfigInit ==
    /\ cfgAccounts \in AccountLists(MaxAccounts)
    /\ cfgIn = cfgAccounts
    /\ cfgRes = None
    /\ cfgStep = "loaded"
    /\ cfgPass \in Passphrases
    /\ cfgActive \in {None} \cup {Some(i) : i \in 0..1}
    /\ cfgSaved = None
    /\ clientRooms = [r \in RoomIds |-> NoRoom]
    /\ roomCmds = 0
    /\ uiPc = "off"
    /\ protoPc = "off"
    /\ toRead = {}
    /\ persisted = {}
    /\ handlers = {}
    /\ delivered = {}
    /\ liveSent = {}
    /\ rcIn = [state |-> "Joined", content |-> << >>, own_user |-> None]
    /\ rcOut = None
    /\ rkRoom = R1
    /\ rkDir = None
    /\ rkSeed = None
    \* nothing else is exercised
    /\ files = [key \in RoomKeys |-> NoFile]
    /\ dirs = {}
    /\ writer = [key \in RoomKeys |-> "hunter2"]
    /\ created = RoomKeys
    /\ hist = [key \in RoomKeys |-> << >>]
    /\ last = NoCall
    /\ ops = 0
    /\ cPass = "hunter2"
    /\ cMsg = << >>
    /\ cFile = None
    /\ cValue = None
    /\ cOut = NoDecrypt
    /\ pc = "off"
    /\ joined = << >>
    /\ idx = 0
    /\ last_ts = 0
    /\ from = None
    /\ collected = << >>
    /\ pageLeft = 0
    /\ pageEnd = None
    /\ budget = 0
    /\ evq = << >>
    /\ seen = NothingSeen
    /\ anchor = [r \in RoomIds |-> None]
    /\ backfilled = {}
    /\ app = AppNew
    /\ notified = 0
    /\ uiDone = FALSE
    /\ uiSteps = 0
    /\ sas_state = None
    /\ reqs = << >>
    /\ sass = [s \in 1..MaxCommands |-> NoSas]
    /\ watchers = [s \in 1..MaxCommands |-> << >>]
    /\ published = [r \in 1..MaxCommands |-> << >>]
    /\ calls = << >>
    /\ cmds = 0
    /\ evt_q = << >>
    /\ cmd_q = << >>
    /\ evtSent = [p \in Producers |-> 0]
    /\ evtGot = << >>
    /\ cmdSent = 0
    /\ cmdGot = << >>
    /\ ui = "running"
    /\ proto = "startup"
    /\ sync_task = "none"
    /\ runtime = "up"

ConfigRest == << storeVars, codecVars, syncVars, uiVars, sasVars, brokerVars, roomVars, startVars, liveVars,
        rcVars, rkVars >>

\* decrypt_sessions(&mut cfg, &passphrase)?: an error ends main
DecryptSessions ==
    /\ cfgStep = "loaded"
    /\ LET out == decrypt_sessions(cfgAccounts, cfgPass)
       IN  /\ cfgAccounts' = out.accounts
           /\ cfgRes' = Some(out.res)
           /\ cfgStep' = IF out.res.ok THEN "decrypted" ELSE "failed"
    /\ UNCHANGED << cfgIn, cfgPass, cfgActive, cfgSaved, ConfigRest >>

\* if encrypt_missing_sessions(&mut cfg, &passphrase)? { save_config(..)? }
EncryptMissingSessions(seed) ==
    /\ cfgStep = "decrypted"
    /\ LET out == encrypt_missing_sessions(cfgAccounts, cfgPass, seed)
       IN  /\ cfgAccounts' = out.accounts
           /\ cfgSaved' = IF out.changed THEN Some(save_config(out.accounts, cfgActive))
                          ELSE cfgSaved
    /\ cfgStep' = "encrypted"
    /\ UNCHANGED << cfgIn, cfgRes, cfgPass, cfgActive, ConfigRest >>

\* a login: the first account is pushed by main, a later login goes
\* through update_account_session; the configuration is saved
Login(session, seed) ==
    /\ cfgStep = "encrypted"
    /\ LET updated == AccountConfig(None, Some(session))
           out == IF cfgAccounts = << >>
                  THEN [accounts |-> << encrypt_account_session(updated, cfgPass, seed) >>,
                        active |-> Some(0)]
                  ELSE update_account_session(cfgAccounts, cfgActive, updated, cfgPass, seed)
       IN  /\ cfgAccounts' = out.accounts
           /\ cfgActive' = out.active
           /\ cfgSaved' = Some(save_config(out.accounts, out.active))
    /\ cfgStep' = "updated"
    /\ UNCHANGED << cfgIn, cfgRes, cfgPass, ConfigRest >>

ConfigNext ==
    \/ DecryptSessions
    \/ \E seed \in RngSeeds : EncryptMissingSessions(seed)
    \/ \E session \in Sessions, seed \in RngSeeds : Login(session, seed)

SpecConfig == ConfigInit /\ [][ConfigNext]_vars

(* ---------------------------------------------------------------------- *)
(* matrix.rs: the room list published at start and after room commands     *)
(* ---------------------------------------------------------------------- *)
RoomsInit ==
    /\ clientRooms \in [RoomIds -> ClientRoomStates]
    /\ roomCmds = 0
    /\ uiPc = "off"
    /\ protoPc = "off"
    /\ toRead = {}
    /\ persisted = {}
    /\ handlers = {}
    /\ delivered = {}
    /\ liveSent = {}
    /\ rcIn = [state |-> "Joined", content |-> << >>, own_user |-> None]
    /\ rcOut = None
    /\ rkRoom = R1
    /\ rkDir = None
    /\ rkSeed = None
    /\ evq = << >>
    \* nothing else is exercised
    /\ files = [key \in RoomKeys |-> NoFile]
    /\ dirs = {}
    /\ writer = [key \in RoomKeys |-> "hunter2"]
    /\ created = RoomKeys
    /\ hist = [key \in RoomKeys |-> << >>]
    /\ last = NoCall
    /\ ops = 0
    /\ cPass = "hunter2"
    /\ cMsg = << >>
    /\ cFile = None
    /\ cValue = None
    /\ cOut = NoDecrypt
    /\ pc = "off"
    /\ joined = << >>
    /\ idx = 0
    /\ last_ts = 0
    /\ from = None
    /\ collected = << >>
    /\ pageLeft = 0
    /\ pageEnd = None
    /\ budget = 0
    /\ seen = NothingSeen
    /\ anchor = [r \in RoomIds |-> None]
    /\ backfilled = {}
    /\ app = AppNew
    /\ notified = 0
    /\ uiDone = FALSE
    /\ uiSteps = 0
    /\ sas_state = None
    /\ reqs = << >>
    /\ sass = [s \in 1..MaxCommands |-> NoSas]
    /\ watchers = [s \in 1..MaxCommands |-> << >>]
    /\ published = [r \in 1..MaxCommands |-> << >>]
    /\ calls = << >>
    /\ cmds = 0
    /\ evt_q = << >>
    /\ cmd_q = << >>
    /\ evtSent = [p \in Producers |-> 0]
    /\ evtGot = << >>
    /\ cmdSent = 0
    /\ cmdGot = << >>
    /\ ui = "running"
    /\ proto = "startup"
    /\ sync_task = "none"
    /\ runtime = "up"
    /\ cfgAccounts = << >>
    /\ cfgIn = << >>
    /\ cfgRes = None
    /\ cfgStep = "off"
    /\ cfgPass = "hunter2"
    /\ cfgActive = None
    /\ cfgSaved = None

RoomsRest == << pc, joined, idx, last_ts, from, collected, pageLeft, pageEnd, budget, seen,
                anchor, backfilled, storeVars, codecVars, uiVars, sasVars, brokerVars, cfgVars, startVars, liveVars,
        rcVars, rkVars >>

\* publish_rooms(&client, &evt_tx) after the initial sync
PublishRoomsAtStart ==
    /\ evq = << >>
    /\ evq' = Append(evq, publish_rooms(joined_rooms(clientRooms), invited_rooms(clientRooms)))
    /\ UNCHANGED << clientRooms, roomCmds, RoomsRest >>

\* MatrixCommand::AcceptInvite: room.join(), whose result is dropped, then
\* publish_rooms
AcceptInvite(r, joinOk) ==
    /\ evq # << >>
    /\ roomCmds < MaxCommands
    /\ roomCmds' = roomCmds + 1
    /\ IF clientRooms[r].state = "none"
       THEN UNCHANGED << clientRooms, evq >>
       ELSE LET rooms == IF joinOk /\ clientRooms[r].state = "invited"
                         THEN [clientRooms EXCEPT ![r] = JoinedRoom] ELSE clientRooms
            IN  /\ clientRooms' = rooms
                /\ evq' = Append(evq, publish_rooms(joined_rooms(rooms), invited_rooms(rooms)))
    /\ UNCHANGED RoomsRest

\* MatrixCommand::RejectInvite and MatrixCommand::LeaveRoom: room.leave(),
\* whose result is dropped, then publish_rooms
LeaveRoom(r, leaveOk) ==
    /\ evq # << >>
    /\ roomCmds < MaxCommands
    /\ roomCmds' = roomCmds + 1
    /\ IF clientRooms[r].state = "none"
       THEN UNCHANGED << clientRooms, evq >>
       ELSE LET rooms == IF leaveOk THEN [clientRooms EXCEPT ![r] = NoRoom] ELSE clientRooms
            IN  /\ clientRooms' = rooms
                /\ evq' = Append(evq, publish_rooms(joined_rooms(rooms), invited_rooms(rooms)))
    /\ UNCHANGED RoomsRest

\* an invitation arrives with the continuous sync
Invitation(r, details) ==
    /\ evq # << >>
    /\ clientRooms[r].state = "none"
    /\ roomCmds < MaxCommands
    /\ clientRooms' = [clientRooms EXCEPT ![r] = [state |-> "invited", details |-> details]]
    /\ UNCHANGED << evq, roomCmds, RoomsRest >>

RoomsNext ==
    \/ PublishRoomsAtStart
    \/ \E r \in RoomIds, joinOk \in BOOLEAN : AcceptInvite(r, joinOk)
    \/ \E r \in RoomIds, leaveOk \in BOOLEAN : LeaveRoom(r, leaveOk)
    \/ \E r \in RoomIds, details \in InviteDetails : Invitation(r, details)

SpecRooms == RoomsInit /\ [][RoomsNext]_vars

(* ---------------------------------------------------------------------- *)
(* main.rs: start_matrix spawns start_sync, then runs run_app              *)
(* ---------------------------------------------------------------------- *)
StartupInit ==
    /\ uiPc = "list"
    /\ protoPc = "sync_once"
    /\ toRead = {}
    /\ persisted = {}
    /\ handlers = {}
    /\ delivered = {}
    /\ liveSent = {}
    /\ rcIn = [state |-> "Joined", content |-> << >>, own_user |-> None]
    /\ rcOut = None
    /\ rkRoom = R1
    /\ rkDir = None
    /\ rkSeed = None
    /\ files \in [RoomKeys -> {NoFile, SyncedLog, ForeignLog}]
    /\ dirs \in {created_dirs \in SUBSET RoomKeys :
                    \A key \in RoomKeys : files[key].exists => key \in created_dirs}
    /\ app = [AppNew EXCEPT !.own_user_id = Some(OwnUser)]
    /\ notified = 0
    /\ uiDone = FALSE
    /\ uiSteps = 0
    /\ evq = << >>
    \* nothing else is exercised
    /\ writer = [key \in RoomKeys |-> "hunter2"]
    /\ created = RoomKeys
    /\ hist = [key \in RoomKeys |-> << >>]
    /\ last = NoCall
    /\ ops = 0
    /\ cPass = "hunter2"
    /\ cMsg = << >>
    /\ cFile = None
    /\ cValue = None
    /\ cOut = NoDecrypt
    /\ pc = "off"
    /\ joined = << >>
    /\ idx = 0
    /\ last_ts = 0
    /\ from = None
    /\ collected = << >>
    /\ pageLeft = 0
    /\ pageEnd = None
    /\ budget = 0
    /\ seen = NothingSeen
    /\ anchor = [r \in RoomIds |-> None]
    /\ backfilled = {}
    /\ sas_state = None
    /\ reqs = << >>
    /\ sass = [s \in 1..MaxCommands |-> NoSas]
    /\ watchers = [s \in 1..MaxCommands |-> << >>]
    /\ published = [r \in 1..MaxCommands |-> << >>]
    /\ calls = << >>
    /\ cmds = 0
    /\ evt_q = << >>
    /\ cmd_q = << >>
    /\ evtSent = [p \in Producers |-> 0]
    /\ evtGot = << >>
    /\ cmdSent = 0
    /\ cmdGot = << >>
    /\ ui = "running"
    /\ proto = "startup"
    /\ sync_task = "none"
    /\ runtime = "up"
    /\ cfgAccounts = << >>
    /\ cfgIn = << >>
    /\ cfgRes = None
    /\ cfgStep = "off"
    /\ cfgPass = "hunter2"
    /\ cfgActive = None
    /\ cfgSaved = None
    /\ clientRooms = [r \in RoomIds |-> NoRoom]
    /\ roomCmds = 0

StartupRest == << pc, joined, idx, last_ts, from, collected, pageLeft, pageEnd, budget, seen,
                  anchor, backfilled, writer, created, hist, last, ops, codecVars, sasVars,
                  brokerVars, cfgVars, roomVars, liveVars, rcVars, rkVars >>

\* load_all_messages: fs::read_dir(base)
UiListLogs ==
    /\ uiPc = "list"
    /\ toRead' = dirs
    /\ uiPc' = "read"
    /\ UNCHANGED << protoPc, persisted, files, dirs, app, notified, uiDone, uiSteps, evq,
                    StartupRest >>

\* load_all_messages: one directory entry; a directory without a log is
\* skipped, read_encrypted(&path, passphrase)? failing ends the load and
\* nothing is seeded
UiReadLog(key) ==
    /\ uiPc = "read"
    /\ key \in toRead
    /\ LET raw == read_encrypted(files[key].data, RunPassphrase)
       IN  IF ~files[key].exists
           THEN /\ persisted' = persisted
                /\ toRead' = toRead \ {key}
                /\ uiPc' = uiPc
           ELSE IF raw.ok
           THEN /\ persisted' = persisted \cup {<< key, unwrap_or_default(from_slice(raw.val)) >>}
                /\ toRead' = toRead \ {key}
                /\ uiPc' = uiPc
           ELSE /\ persisted' = {}
                /\ toRead' = {}
                /\ uiPc' = "loop"
    /\ UNCHANGED << protoPc, files, dirs, app, notified, uiDone, uiSteps, evq, StartupRest >>

\* the pushes of the persisted records, then the last-seen timestamps
UiSeed ==
    /\ uiPc = "read"
    /\ toRead = {}
    /\ app' = seed_last_seen(seed_rooms(app, persisted))
    /\ uiPc' = "loop"
    /\ UNCHANGED << protoPc, toRead, persisted, files, dirs, notified, uiDone, uiSteps, evq,
                    StartupRest >>

\* the drain applying an event before the seeding is over
UiApply_unseeded ==
    /\ uiSteps < Len(evq)
    /\ LET evt == evq[uiSteps + 1]
       IN  /\ app' = IF evt.type = "Attachment"
                     THEN handle_incoming_attachment(app, evt.room_id, Some(evt.event_id),
                                                     evt.timestamp, evt.sender, evt.kind,
                                                     evt.name, evt.path)
                     ELSE handle_incoming_message(app, evt.room_id, Some(evt.event_id),
                                                  evt.timestamp, evt.sender, evt.body)
           /\ notified' = IF should_notify(app', evt.room_id, evt.sender)
                          THEN notified + 1 ELSE notified
    /\ uiSteps' = uiSteps + 1
    /\ UNCHANGED << uiPc, protoPc, toRead, persisted, files, dirs, uiDone, evq, StartupRest >>

\* one turn of while let Ok(evt) = evt_rx.try_recv() in the loop of run_app
UiApply ==
    /\ uiPc = "loop"
    /\ uiSteps < Len(evq)
    /\ LET evt == evq[uiSteps + 1]
       IN  /\ app' = IF evt.type = "Attachment"
                     THEN handle_incoming_attachment(app, evt.room_id, Some(evt.event_id),
                                                     evt.timestamp, evt.sender, evt.kind,
                                                     evt.name, evt.path)
                     ELSE handle_incoming_message(app, evt.room_id, Some(evt.event_id),
                                                  evt.timestamp, evt.sender, evt.body)
           /\ notified' = IF should_notify(app', evt.room_id, evt.sender)
                          THEN notified + 1 ELSE notified
    /\ uiSteps' = uiSteps + 1
    /\ UNCHANGED << uiPc, protoPc, toRead, persisted, files, dirs, uiDone, evq, StartupRest >>

\* client.sync_once(..).await in the spawned start_sync
ProtoSyncOnce ==
    /\ protoPc = "sync_once"
    /\ protoPc' = "publishing"
    /\ UNCHANGED << uiPc, toRead, persisted, files, dirs, app, notified, uiDone, uiSteps, evq,
                    StartupRest >>

\* backfill or the live handler publishes a message or an attachment and
\* stores it
ProtoPublish(room_id, ts, kind) ==
    /\ protoPc = "publishing"
    /\ Len(evq) < MaxEvents
    /\ LET event_id == "$new" \o ToString(Len(evq) + 1)
           msg == IF kind = "text"
                  THEN TextItem(event_id, PeerUser, "yo", ts, None)
                  ELSE AttachmentItem(event_id, PeerUser, "pic.png",
                                      [dir |-> "attachments", file |-> "pic.png"], kind, ts, None)
           stored == StoreBackfillItem(dirs, files, RunPassphrase, room_id, msg, TRUE, TRUE)
       IN  /\ evq' = Append(evq, BackfillEvent(room_id, msg))
           /\ files' = stored.files
           /\ dirs' = stored.dirs
    /\ UNCHANGED << uiPc, protoPc, toRead, persisted, app, notified, uiDone, uiSteps,
                    StartupRest >>

StartupNext ==
    \/ UiListLogs
    \/ \E key \in RoomKeys : UiReadLog(key)
    \/ UiSeed
    \/ UiApply
    \/ ProtoSyncOnce
    \/ \E room_id \in RoomIds, ts \in 2..MaxServerTs, kind \in {"text", "image"} :
          ProtoPublish(room_id, ts, kind)

SpecStartup == StartupInit /\ [][StartupNext]_vars

(* ---------------------------------------------------------------------- *)
(* matrix.rs: start_sync with the handlers of the sync task                *)
(* ---------------------------------------------------------------------- *)
\* the newest messages of the server: what the last page of the backward
\* pagination holds and what the running sync delivers to the handler
NewestEvents == {ServerEvent(shape, MaxServerTs) : shape \in ServerShapes}

LiveEvents == {event \in NewestEvents : event.message}

\* the calls of the message handler: any message of the joined room, and a
\* text message of a room that is not joined
Deliveries ==
    {[room_id |-> R1, event |-> event] : event \in LiveEvents}
        \cup {[room_id |-> R2, event |-> ServerEvent(CHOOSE sh \in ServerShapes : sh.tag = "text", MaxServerTs)]}

LiveInit ==
    /\ joined = << R1 >>
    /\ files \in [RoomKeys -> {NoFile, SyncedLog, ForeignLog}]
    /\ files[RoomKey(R2)] = NoFile
    /\ dirs = {key \in RoomKeys : files[key].exists}
    /\ writer = [key \in RoomKeys |-> IF files[key] = ForeignLog THEN "wrong" ELSE RunPassphrase]
    /\ created = {key \in RoomKeys : ~files[key].exists}
    /\ hist = [key \in RoomKeys |-> << >>]
    /\ last = NoCall
    /\ ops = 0
    /\ pc = "sync_once"
    /\ idx = 0
    /\ last_ts = 0
    /\ from = None
    /\ collected = << >>
    /\ pageLeft = 0
    /\ pageEnd = None
    /\ budget = MaxEvents
    /\ evq = << >>
    /\ seen = NothingSeen
    /\ anchor = [r \in RoomIds |-> None]
    /\ backfilled = {}
    /\ handlers = {}
    /\ delivered = {}
    /\ liveSent = {}
    /\ rcIn = [state |-> "Joined", content |-> << >>, own_user |-> None]
    /\ rcOut = None
    /\ rkRoom = R1
    /\ rkDir = None
    /\ rkSeed = None
    \* nothing else is exercised
    /\ cPass = "hunter2"
    /\ cMsg = << >>
    /\ cFile = None
    /\ cValue = None
    /\ cOut = NoDecrypt
    /\ app = AppNew
    /\ notified = 0
    /\ uiDone = FALSE
    /\ uiSteps = 0
    /\ sas_state = None
    /\ reqs = << >>
    /\ sass = [s \in 1..MaxCommands |-> NoSas]
    /\ watchers = [s \in 1..MaxCommands |-> << >>]
    /\ published = [r \in 1..MaxCommands |-> << >>]
    /\ calls = << >>
    /\ cmds = 0
    /\ evt_q = << >>
    /\ cmd_q = << >>
    /\ evtSent = [p \in Producers |-> 0]
    /\ evtGot = << >>
    /\ cmdSent = 0
    /\ cmdGot = << >>
    /\ ui = "running"
    /\ proto = "startup"
    /\ sync_task = "none"
    /\ runtime = "up"
    /\ cfgAccounts = << >>
    /\ cfgIn = << >>
    /\ cfgRes = None
    /\ cfgStep = "off"
    /\ cfgPass = "hunter2"
    /\ cfgActive = None
    /\ cfgSaved = None
    /\ clientRooms = [r \in RoomIds |-> NoRoom]
    /\ roomCmds = 0
    /\ uiPc = "off"
    /\ protoPc = "off"
    /\ toRead = {}
    /\ persisted = {}

LiveRest == << pc, joined, idx, last_ts, from, collected, pageLeft, pageEnd, budget, seen,
               anchor, backfilled, created, last, ops, codecVars, uiVars, sasVars, brokerVars,
               cfgVars, roomVars, startVars, rcVars, rkVars >>

Invocation(call, stage, item) ==
    [room_id |-> call.room_id, event |-> call.event, stage |-> stage, item |-> item]

\* the handler called before start_sync has published BackfillDone
LiveMessage_early(call) ==
    /\ pc \in {"backfill", "room", "backfill_done", "live"}
    /\ Cardinality(delivered) < MaxLive
    /\ call \notin delivered
    /\ delivered' = delivered \cup {call}
    /\ LET room_id == call.room_id
           event == call.event
       IN  IF ~(\E i \in DOMAIN joined : joined[i] = room_id)
           THEN UNCHANGED << handlers, evq, liveSent >>
           ELSE IF event.msgtype = "text"
           THEN LET item == TextItem(event.event_id, event.sender, event.body,
                                     event.origin_server_ts, extract_reply_to(event))
                IN  /\ evq' = Append(evq, BackfillEvent(room_id, item))
                    /\ liveSent' = liveSent \cup {Len(evq) + 1}
                    /\ handlers' = handlers \cup {Invocation(call, "store", Some(item))}
           ELSE IF event.msgtype \in {"image", "file", "video", "audio"} /\ event.source
           THEN /\ handlers' = handlers \cup {Invocation(call, "download", None)}
                /\ UNCHANGED << evq, liveSent >>
           ELSE UNCHANGED << handlers, evq, liveSent >>
    /\ UNCHANGED << dirs, files, writer, hist, LiveRest >>

\* the sync task calls the message handler: the room test, the text arm up
\* to its send, the media arms up to the await of the download, and the
\* returns that publish nothing
LiveMessage(call) ==
    /\ pc = "live"
    /\ Cardinality(delivered) < MaxLive
    /\ call \notin delivered
    /\ delivered' = delivered \cup {call}
    /\ LET room_id == call.room_id
           event == call.event
       IN  IF ~(\E i \in DOMAIN joined : joined[i] = room_id)
           THEN UNCHANGED << handlers, evq, liveSent >>
           ELSE IF event.msgtype = "text"
           THEN LET item == TextItem(event.event_id, event.sender, event.body,
                                     event.origin_server_ts, extract_reply_to(event))
                IN  /\ evq' = Append(evq, BackfillEvent(room_id, item))
                    /\ liveSent' = liveSent \cup {Len(evq) + 1}
                    /\ handlers' = handlers \cup {Invocation(call, "store", Some(item))}
           ELSE IF event.msgtype \in {"image", "file", "video", "audio"} /\ event.source
           THEN /\ handlers' = handlers \cup {Invocation(call, "download", None)}
                /\ UNCHANGED << evq, liveSent >>
           ELSE UNCHANGED << handlers, evq, liveSent >>
    /\ UNCHANGED << dirs, files, writer, hist, LiveRest >>

\* handle_attachment_event going on to its store without the send
LiveDownloaded_unsent(call) ==
    /\ Invocation(call, "download", None) \in handlers
    /\ LET h == Invocation(call, "download", None)
           event == h.event
           item == handle_attachment_event(event.event_id, event.sender, event.origin_server_ts,
                                           event.msgtype, event.body, extract_reply_to(event),
                                           event)
       IN  IF item = None
           THEN handlers' = handlers \ {h}
           ELSE handlers' = (handlers \ {h}) \cup {[h EXCEPT !.stage = "store", !.item = item]}
    /\ UNCHANGED << evq, liveSent, delivered, dirs, files, writer, hist, LiveRest >>

\* download_attachment has answered: the send of handle_attachment_event
LiveDownloaded(call) ==
    /\ Invocation(call, "download", None) \in handlers
    /\ LET h == Invocation(call, "download", None)
           event == h.event
           item == handle_attachment_event(event.event_id, event.sender, event.origin_server_ts,
                                           event.msgtype, event.body, extract_reply_to(event),
                                           event)
       IN  IF item = None
           THEN /\ handlers' = handlers \ {h}
                /\ UNCHANGED << evq, liveSent >>
           ELSE /\ evq' = Append(evq, BackfillEvent(h.room_id, item[1]))
                /\ liveSent' = liveSent \cup {Len(evq) + 1}
                /\ handlers' = (handlers \ {h}) \cup {[h EXCEPT !.stage = "store", !.item = item]}
    /\ UNCHANGED << delivered, dirs, files, writer, hist, LiveRest >>

\* the append writing the log anew, without the records the log holds
LiveStore_unread(call, dirOk, ioOk) ==
    /\ \E h \in handlers : h.room_id = call.room_id /\ h.event = call.event /\ h.stage = "store"
    /\ LET h == CHOOSE inv \in handlers :
                    inv.room_id = call.room_id /\ inv.event = call.event /\ inv.stage = "store"
           room_id == h.room_id
           key == RoomKey(room_id)
           msg == h.item[1]
           out == StoreBackfillItem(dirs, [files EXCEPT ![key] = NoFile], RunPassphrase, room_id,
                                    msg, dirOk, ioOk)
           record == StoredMessage(msg.timestamp, msg.sender,
                                   IF msg.item = "Text" THEN msg.body ELSE msg.name,
                                   Some(msg.event_id), msg.reply_to,
                                   IF msg.item = "Text" THEN None
                                   ELSE Some([kind |-> msg.kind, name |-> msg.name, path |-> msg.path]))
       IN  /\ dirs' = out.dirs
           /\ files' = IF out.res.ok THEN out.files ELSE files
           /\ writer' = IF out.res.ok THEN [writer EXCEPT ![key] = RunPassphrase] ELSE writer
           /\ hist' = IF out.res.ok THEN [hist EXCEPT ![key] = Append(@, record)] ELSE hist
           /\ handlers' = handlers \ {h}
    /\ UNCHANGED << delivered, evq, liveSent, LiveRest >>

\* store_message_encrypted after the send; its result is dropped
LiveStore(call, dirOk, ioOk) ==
    /\ \E h \in handlers : h.room_id = call.room_id /\ h.event = call.event /\ h.stage = "store"
    /\ LET h == CHOOSE inv \in handlers :
                    inv.room_id = call.room_id /\ inv.event = call.event /\ inv.stage = "store"
           room_id == h.room_id
           key == RoomKey(room_id)
           msg == h.item[1]
           out == StoreBackfillItem(dirs, files, RunPassphrase, room_id, msg, dirOk, ioOk)
           record == StoredMessage(msg.timestamp, msg.sender,
                                   IF msg.item = "Text" THEN msg.body ELSE msg.name,
                                   Some(msg.event_id), msg.reply_to,
                                   IF msg.item = "Text" THEN None
                                   ELSE Some([kind |-> msg.kind, name |-> msg.name, path |-> msg.path]))
       IN  /\ dirs' = out.dirs
           /\ files' = out.files
           /\ writer' = IF out.files # files THEN [writer EXCEPT ![key] = RunPassphrase] ELSE writer
           /\ hist' = IF out.res.ok THEN [hist EXCEPT ![key] = Append(@, record)] ELSE hist
           /\ handlers' = handlers \ {h}
    /\ UNCHANGED << delivered, evq, liveSent, LiveRest >>

\* the receipt handler: a read receipt of another user in a joined room
LiveReceipt(room_id, event_id) ==
    /\ pc = "live"
    /\ \E i \in DOMAIN joined : joined[i] = room_id
    /\ ~(\E i \in DOMAIN evq : evq[i] = ReceiptEvent(room_id, event_id))
    /\ evq' = Append(evq, ReceiptEvent(room_id, event_id))
    /\ liveSent' = liveSent \cup {Len(evq) + 1}
    /\ UNCHANGED << handlers, delivered, dirs, files, writer, hist, LiveRest >>

LiveNext ==
    \/ SyncOnce
    \/ PublishRooms
    \/ \E dirOk \in BOOLEAN : BackfillEnter(dirOk)
    \/ BackfillRoom
    \/ \E messages \in {PageError, Page(1, None)} : RequestPage(messages)
    \/ \E event \in NewestEvents : ExaminePage(event)
    \/ SortCollected
    \/ \E dirOk \in BOOLEAN, ioOk \in BOOLEAN : EmitCollected(dirOk, ioOk)
    \/ NextRoom
    \/ BackfillReturn
    \/ SendBackfillDone
    \/ \E call \in Deliveries : LiveMessage(call)
    \/ \E call \in Deliveries : LiveDownloaded(call)
    \/ \E call \in Deliveries, dirOk \in BOOLEAN, ioOk \in BOOLEAN : LiveStore(call, dirOk, ioOk)
    \/ LiveReceipt(R1, "$text1")

SpecLive == LiveInit /\ [][LiveNext]_vars

(* ---------------------------------------------------------------------- *)
(* The receipt handler on every receipt event                              *)
(* ---------------------------------------------------------------------- *)
OtherUser == "@c:x"
\* the users of a receipt map in the order of the map's keys
ReceiptUsers == << OwnUser, PeerUser, OtherUser >>
ReceiptIds == 1..MaxReceiptIds
ReceiptId(i) == "$r" \o ToString(i)
\* the Read receipts of one event id: no Read entry, or the users of the entry
ReadEntries ==
    {None} \cup {Some(SelectSeq(ReceiptUsers, LAMBDA u : u \in S)) :
                    S \in SUBSET {ReceiptUsers[i] : i \in DOMAIN ReceiptUsers}}
\* ReceiptEventContent: the entries of the event ids the event carries, in the
\* order of the ids
RECURSIVE ContentOf(_, _, _)
ContentOf(present, f, i) ==
    IF i > MaxReceiptIds THEN << >>
    ELSE (IF i \notin present THEN << >>
          ELSE << [event_id |-> ReceiptId(i), read |-> f[i]] >>)
             \o ContentOf(present, f, i + 1)
ReceiptInputs ==
    { [state |-> state, content |-> ContentOf(present, f, 1), own_user |-> own_user] :
        state \in {"Joined", "Invited", "Left"},
        present \in SUBSET ReceiptIds,
        f \in [ReceiptIds -> ReadEntries],
        own_user \in {None, Some(OwnUser)} }

ReceiptsRest == << storeVars, codecVars, syncVars, uiVars, sasVars, brokerVars, cfgVars,
                   roomVars, startVars, liveVars, rkVars >>

ReceiptsInit ==
    /\ rcIn \in ReceiptInputs
    /\ rcOut = None
    /\ rkRoom = R1
    /\ rkDir = None
    /\ rkSeed = None
    /\ sas_state = None
    /\ reqs = << >>
    /\ sass = [s \in 1..MaxCommands |-> NoSas]
    /\ watchers = [s \in 1..MaxCommands |-> << >>]
    /\ published = [r \in 1..MaxCommands |-> << >>]
    /\ calls = << >>
    /\ cmds = 0
    /\ evt_q = << >>
    /\ cmd_q = << >>
    /\ evtSent = [p \in Producers |-> 0]
    /\ evtGot = << >>
    /\ cmdSent = 0
    /\ cmdGot = << >>
    /\ ui = "running"
    /\ proto = "startup"
    /\ sync_task = "none"
    /\ runtime = "up"
    /\ cfgAccounts = << >>
    /\ cfgIn = << >>
    /\ cfgRes = None
    /\ cfgStep = "off"
    /\ cfgPass = "hunter2"
    /\ cfgActive = None
    /\ cfgSaved = None
    /\ clientRooms = [r \in RoomIds |-> NoRoom]
    /\ roomCmds = 0
    /\ uiPc = "off"
    /\ protoPc = "off"
    /\ toRead = {}
    /\ persisted = {}
    /\ handlers = {}
    /\ delivered = {}
    /\ liveSent = {}
    /\ files = [key \in RoomKeys |-> NoFile]
    /\ dirs = {}
    /\ writer = [key \in RoomKeys |-> "hunter2"]
    /\ created = RoomKeys
    /\ hist = [key \in RoomKeys |-> << >>]
    /\ last = NoCall
    /\ ops = 0
    /\ cPass = "hunter2"
    /\ cMsg = << >>
    /\ cFile = None
    /\ cValue = None
    /\ cOut = NoDecrypt
    /\ pc = "live"
    /\ evq = << >>
    /\ joined = << >>
    /\ idx = 0
    /\ last_ts = 0
    /\ from = None
    /\ collected = << >>
    /\ pageLeft = 0
    /\ pageEnd = None
    /\ budget = 0
    /\ seen = NothingSeen
    /\ anchor = [r \in RoomIds |-> None]
    /\ backfilled = {}
    /\ app = AppNew
    /\ notified = 0
    /\ uiDone = FALSE
    /\ uiSteps = 0

\* the handler runs on the event
HandleReceipt ==
    /\ rcOut = None
    /\ rcOut' = Some(receipt_handler(rcIn.state, R1, rcIn.content, rcIn.own_user))
    /\ UNCHANGED << rcIn, ReceiptsRest >>

ReceiptsNext == HandleReceipt

SpecReceipts == ReceiptsInit /\ [][ReceiptsNext]_vars

(* ---------------------------------------------------------------------- *)
(* The command loop on the commands of the UI                              *)
(* ---------------------------------------------------------------------- *)
\* a room alias, a room id without its sigil and a user id without its sigil
AliasId == << "#", "a", ":", "x" >>
BadRoomId == << "a", ":", "x" >>
PeerId == << "@", "b", ":", "x" >>
BadUserId == << "b", ":", "x" >>
Command(type, target) == [type |-> type, target |-> target]
Commands ==
    {Command(type, target) :
        type \in {"SendMessage", "SendAttachment", "LeaveRoom"}, target \in {R1, BadRoomId}}
    \cup {Command(type, target) :
             type \in {"AcceptInvite", "RejectInvite"}, target \in {R2, BadRoomId}}
    \cup {Command("JoinRoom", target) : target \in {R2, AliasId, BadRoomId, BadUserId}}
    \cup {Command("CreateDirect", target) : target \in {PeerId, BadUserId}}
\* the homeserver refuses the call, or answers it; the answer to create_room
\* names the new room
Outcomes == {Err("http")} \cup {Ok(r) : r \in RoomIds}

CommandsRest == << pc, joined, idx, last_ts, from, collected, pageLeft, pageEnd, budget, seen,
                   anchor, backfilled, sas_state, reqs, sass, watchers, published, cmds,
                   evt_q, evtSent, evtGot, ui, proto, sync_task, runtime, roomCmds,
                   storeVars, codecVars, uiVars, cfgVars, startVars, liveVars, rcVars,
        rkVars >>

CommandsInit ==
    /\ clientRooms \in [RoomIds -> {NoRoom, JoinedRoom, [state |-> "invited", details |-> Ok(Some(BobName))]}]
    /\ roomCmds = 0
    /\ uiPc = "off"
    /\ protoPc = "off"
    /\ toRead = {}
    /\ persisted = {}
    /\ handlers = {}
    /\ delivered = {}
    /\ liveSent = {}
    /\ rcIn = [state |-> "Joined", content |-> << >>, own_user |-> None]
    /\ rcOut = None
    /\ rkRoom = R1
    /\ rkDir = None
    /\ rkSeed = None
    /\ evq = << >>
    \* nothing else is exercised
    /\ files = [key \in RoomKeys |-> NoFile]
    /\ dirs = {}
    /\ writer = [key \in RoomKeys |-> "hunter2"]
    /\ created = RoomKeys
    /\ hist = [key \in RoomKeys |-> << >>]
    /\ last = NoCall
    /\ ops = 0
    /\ cPass = "hunter2"
    /\ cMsg = << >>
    /\ cFile = None
    /\ cValue = None
    /\ cOut = NoDecrypt
    /\ pc = "off"
    /\ joined = << >>
    /\ idx = 0
    /\ last_ts = 0
    /\ from = None
    /\ collected = << >>
    /\ pageLeft = 0
    /\ pageEnd = None
    /\ budget = 0
    /\ seen = NothingSeen
    /\ anchor = [r \in RoomIds |-> None]
    /\ backfilled = {}
    /\ app = AppNew
    /\ notified = 0
    /\ uiDone = FALSE
    /\ uiSteps = 0
    /\ sas_state = None
    /\ reqs = << >>
    /\ sass = [s \in 1..MaxCommands |-> NoSas]
    /\ watchers = [s \in 1..MaxCommands |-> << >>]
    /\ published = [r \in 1..MaxCommands |-> << >>]
    /\ calls = << >>
    /\ cmds = 0
    /\ evt_q = << >>
    /\ cmd_q = << >>
    /\ evtSent = [p \in Producers |-> 0]
    /\ evtGot = << >>
    /\ cmdSent = 0
    /\ cmdGot = << >>
    /\ ui = "running"
    /\ proto = "startup"
    /\ sync_task = "none"
    /\ runtime = "up"
    /\ cfgAccounts = << >>
    /\ cfgIn = << >>
    /\ cfgRes = None
    /\ cfgStep = "off"
    /\ cfgPass = "hunter2"
    /\ cfgActive = None
    /\ cfgSaved = None
\* the UI sends a command: cmd_tx.send
UiCommand(cmd) ==
    /\ cmdSent < MaxCommands
    /\ cmdSent' = cmdSent + 1
    /\ cmd_q' = Append(cmd_q, cmd)
    /\ UNCHANGED << cmdGot, calls, evq, clientRooms, CommandsRest >>

\* while let Some(cmd) = cmd_rx.recv().await: one turn of the loop
CommandLoop(outcome, readOk) ==
    /\ cmd_q # << >>
    /\ (Head(cmd_q).type = "CreateDirect" /\ outcome.ok) => clientRooms[outcome.val].state = "none"
    /\ LET turn == handle_command(Head(cmd_q), clientRooms, outcome, readOk)
       IN  /\ calls' = calls \o turn.calls
           /\ evq' = evq \o turn.events
           /\ clientRooms' = turn.rooms
    /\ cmd_q' = Tail(cmd_q)
    /\ cmdGot' = Append(cmdGot, Head(cmd_q))
    /\ UNCHANGED << cmdSent, CommandsRest >>

CommandsNext ==
    \/ \E cmd \in Commands : UiCommand(cmd)
    \/ \E outcome \in Outcomes, readOk \in BOOLEAN : CommandLoop(outcome, readOk)

SpecCommands == CommandsInit /\ [][CommandsNext]_vars

(* ---------------------------------------------------------------------- *)
(* The directory name of a room and the room id it is seeded under         *)
(* ---------------------------------------------------------------------- *)
\* the characters of a room id after its sigil
IdChars == {"a", "_", ":"}
RECURSIVE IdTails(_)
IdTails(n) ==
    IF n = 0 THEN {<< >>}
    ELSE LET shorter == IdTails(n - 1)
         IN  shorter \cup {Append(t, c) : t \in {u \in shorter : Len(u) = n - 1}, c \in IdChars}
\* the room ids RoomId::parse accepts
ParsedRoomIds == {id \in {<< "!" >> \o t : t \in IdTails(MaxIdLen)} : RoomId_parse(id).ok}

RoomKeyRest == << storeVars, codecVars, syncVars, uiVars, sasVars, brokerVars, cfgVars,
                  roomVars, startVars, liveVars, rcVars >>

RoomKeyInit ==
    /\ rkRoom \in ParsedRoomIds
    /\ rkDir = None
    /\ rkSeed = None
    /\ rcIn = [state |-> "Joined", content |-> << >>, own_user |-> None]
    /\ rcOut = None
    /\ sas_state = None
    /\ reqs = << >>
    /\ sass = [s \in 1..MaxCommands |-> NoSas]
    /\ watchers = [s \in 1..MaxCommands |-> << >>]
    /\ published = [r \in 1..MaxCommands |-> << >>]
    /\ calls = << >>
    /\ cmds = 0
    /\ evt_q = << >>
    /\ cmd_q = << >>
    /\ evtSent = [p \in Producers |-> 0]
    /\ evtGot = << >>
    /\ cmdSent = 0
    /\ cmdGot = << >>
    /\ ui = "running"
    /\ proto = "startup"
    /\ sync_task = "none"
    /\ runtime = "up"
    /\ cfgAccounts = << >>
    /\ cfgIn = << >>
    /\ cfgRes = None
    /\ cfgStep = "off"
    /\ cfgPass = "hunter2"
    /\ cfgActive = None
    /\ cfgSaved = None
    /\ clientRooms = [r \in RoomIds |-> NoRoom]
    /\ roomCmds = 0
    /\ uiPc = "off"
    /\ protoPc = "off"
    /\ toRead = {}
    /\ persisted = {}
    /\ handlers = {}
    /\ delivered = {}
    /\ liveSent = {}
    /\ files = [key \in RoomKeys |-> NoFile]
    /\ dirs = {}
    /\ writer = [key \in RoomKeys |-> "hunter2"]
    /\ created = RoomKeys
    /\ hist = [key \in RoomKeys |-> << >>]
    /\ last = NoCall
    /\ ops = 0
    /\ cPass = "hunter2"
    /\ cMsg = << >>
    /\ cFile = None
    /\ cValue = None
    /\ cOut = NoDecrypt
    /\ pc = "live"
    /\ evq = << >>
    /\ joined = << >>
    /\ idx = 0
    /\ last_ts = 0
    /\ from = None
    /\ collected = << >>
    /\ pageLeft = 0
    /\ pageEnd = None
    /\ budget = 0
    /\ seen = NothingSeen
    /\ anchor = [r \in RoomIds |-> None]
    /\ backfilled = {}
    /\ app = AppNew
    /\ notified = 0
    /\ uiDone = FALSE
    /\ uiSteps = 0
\* append_message: ensure_room_dir and room_log_path name the directory
StoreUnderKey ==
    /\ rkDir = None
    /\ rkDir' = Some(RoomKey(rkRoom))
    /\ UNCHANGED << rkRoom, rkSeed, RoomKeyRest >>

\* run_app: load_all_messages hands the directory name over and the records
\* are pushed under room_key.replace('_', ":")
SeedFromKey ==
    /\ rkDir # None
    /\ rkSeed = None
    /\ rkSeed' = Some(KeyToRoom(rkDir[1]))
    /\ UNCHANGED << rkRoom, rkDir, RoomKeyRest >>

RoomKeyNext ==
    \/ StoreUnderKey
    \/ SeedFromKey

SpecRoomKey == RoomKeyInit /\ [][RoomKeyNext]_vars

(* ---------------------------------------------------------------------- *)
\* the records a reader holding the writer's passphrase gets from a log
LogOf(key) ==
    IF ~files[key].exists THEN << >>
    ELSE unwrap_or_default(from_slice(read_encrypted(files[key].data, writer[key]).val))

RECURSIVE KeepFirst(_, _)
\* the first n records of seq, each non-null event id kept at its first occurrence only
KeepFirst(seq, n) ==
    IF n = 0 THEN << >>
    ELSE LET prev == KeepFirst(seq, n - 1)
         IN  IF seq[n].event_id # None /\ \E j \in 1..(n - 1) : seq[j].event_id = seq[n].event_id
             THEN prev
             ELSE Append(prev, seq[n])

\* C1: a log that did not exist at start holds, after any appends, at most one
\* record per non-null event id, namely the first one appended with that id:
\* the log is the sequence of appended records with later duplicates dropped,
\* so appending a record again leaves the log as it was.
C1_AppendIdempotent ==
    \A key \in created :
        /\ LogOf(key) = KeepFirst(hist[key], Len(hist[key]))
        /\ \A i, j \in 1..Len(LogOf(key)) :
              (i # j /\ LogOf(key)[i].event_id # None)
                  => LogOf(key)[i].event_id # LogOf(key)[j].event_id

\* a record with an event id was appended twice with different contents
C1_Witness ==
    \E key \in created : \E i, j \in 1..Len(hist[key]) :
        /\ i < j
        /\ hist[key][i].event_id # None
        /\ hist[key][i].event_id = hist[key][j].event_id
        /\ hist[key][i] # hist[key][j]
        /\ Len(LogOf(key)) < Len(hist[key])

\* the records physically present in the plaintext of a log file
PhysicalRecords(fsFiles, pass, key) ==
    IF ~fsFiles[key].exists THEN << >>
    ELSE LET raw == read_encrypted(fsFiles[key].data, pass[key])
         IN  IF ~raw.ok THEN << >>
             ELSE LET objs == SelectSeq(raw.val, LAMBDA tok : tok.t = "obj")
                  IN  [i \in 1..Len(objs) |-> objs[i].v]

RECURSIVE IsSubsequence(_, _)
IsSubsequence(a, b) ==
    IF Len(a) = 0 THEN TRUE
    ELSE IF Len(b) = 0 THEN FALSE
    ELSE IF Head(a) = Head(b) THEN IsSubsequence(Tail(a), Tail(b))
    ELSE IsSubsequence(a, Tail(b))

\* C2: a room log is append-only: every record in the log before an append,
\* also one whose plaintext is not a valid JSON array, is in the log after
\* it, in the same relative order.
C2_AppendOnly ==
    [][\A key \in RoomKeys :
          IsSubsequence(PhysicalRecords(files, writer, key), PhysicalRecords(files', writer', key))]_vars

\* the largest of the timestamps of a log, computed over the set of them
SetMax(log) ==
    LET T == {log[i].timestamp : i \in 1..Len(log)}
    IN  IF T = {} THEN None ELSE Some(CHOOSE m \in T : \A t \in T : t <= m)

C4_WrongPassphrase ==
    \A room_id \in RoomIds, passphrase \in Passphrases :
        LET key == RoomKey(room_id)
        IN  (files[key].exists /\ passphrase # writer[key]) =>
                /\ ~latest_room_timestamp(files, room_id, passphrase).ok
                /\ ~load_all_messages(dirs, files, passphrase).ok
                /\ \A record \in Records, seed \in StoreSeeds :
                      LET out == append_message(dirs, files, passphrase, room_id, record, seed, seed, TRUE)
                      IN  ~out.res.ok /\ out.files = files

\* two room logs written under different passphrases, the last append refused
C4_Witness ==
    /\ files[RoomKey(R1)].exists
    /\ files[RoomKey(R2)].exists
    /\ writer[RoomKey(R1)] # writer[RoomKey(R2)]
    /\ last.op = "append"
    /\ ~last.ok
    /\ \A passphrase \in Passphrases : ~load_all_messages(dirs, files, passphrase).ok

\* C5: decrypting with passphrase p what was encrypted with p gives back the
\* byte string, in the binary file form and in the embedded base64 form.
C5_RoundTrip ==
    (cOut.form # "none" /\ cOut.pass = cPass) => cOut.res = Ok(cMsg)

\* both forms have been written and the last one read back with the passphrase
C5_Witness ==
    /\ cFile # None
    /\ cValue # None
    /\ cOut.form = "value"
    /\ cOut.pass = cPass
    /\ Len(cMsg) = MaxMsgLen
    /\ cOut.res = Ok(cMsg)

(* ---------------------------------------------------------------------- *)
(* Properties of the start-up of the protocol task                         *)
(* ---------------------------------------------------------------------- *)
Paging == pc \in {"request", "examine"}

\* the ids of the events backfill published for a room, in queue order
PublishedIds(room_id) ==
    LET at == SelectSeq([i \in DOMAIN evq |-> i],
                        LAMBDA i : i \in backfilled /\ evq[i].room_id = room_id)
    IN  [k \in DOMAIN at |-> evq[at[k]].event_id]

\* the records a room log holds behind the one it held at start
StoredSince(room_id) ==
    LET log == LogOf(RoomKey(room_id))
    IN  IF Len(log) <= 1 THEN << >> ELSE SubSeq(log, 2, Len(log))

\* what backfill publishes and persists lies above the stored latest, and
\* the loop is left after an error, an empty page, a page without end token
NothingOldAndPagesEnd ==
    /\ \A i \in backfilled :
          /\ anchor[evq[i].room_id] # None
          /\ evq[i].timestamp > anchor[evq[i].room_id][1]
    /\ \A r \in RoomIds : \A i \in DOMAIN hist[RoomKey(r)] :
          /\ anchor[r] # None
          /\ hist[RoomKey(r)][i].timestamp > anchor[r][1]
    /\ \A r \in RoomIds : anchor[r] # None =>
          \A i \in DOMAIN StoredSince(r) : StoredSince(r)[i].timestamp > anchor[r][1]
    /\ Paging => seen.answer \notin {"error", "empty"}
    /\ (pc = "request" /\ seen.answer = "chunk") => pageEnd # None

\* C6 as stated: backfill stops at the first event whose timestamp is <= L:
\* nothing at or below L is published or persisted, and once an event at or
\* below L has been iterated over no further event is examined and no
\* further page requested; an empty page or a missing end token stops it too.
C6_StopsAtFirstOldEvent ==
    /\ NothingOldAndPagesEnd
    /\ Paging => ~seen.old

\* C6: backfill stops at the first room-message event whose timestamp is
\* <= L: nothing at or below L is published or persisted, and once such an
\* event has been iterated over no further event is examined and no further
\* page requested; an error, an empty page or a missing end token stops it
\* too.  Events that are not room messages are passed over whatever their
\* timestamp.
C6_StopsAtFirstOldMessage ==
    /\ NothingOldAndPagesEnd
    /\ Paging => ~seen.stop

\* a newer message was collected, then a message at the stored latest ended
\* the loops with an event of the chunk left unexamined
C6_Witness ==
    /\ pc = "sort"
    /\ seen.stop
    /\ Len(collected) >= 1
    /\ seen.max > last_ts

\* an event that is not a room message and is no newer than the stored
\* latest was passed over, and the loop went on
C6_PassedOverWitness ==
    /\ Paging
    /\ seen.old
    /\ ~seen.stop

\* C7 as stated: when the backfill of a room is complete, the latest
\* timestamp of its log is the maximum of the timestamps of the events the
\* homeserver returned (and of the stored latest it started from), whatever
\* their order and message types.
C7_LatestIsMaxReturned ==
    (pc = "emit" /\ collected = << >> /\ seen.unexamined = 0) =>
        latest_room_timestamp(files, joined[idx], RunPassphrase)
            = Ok(Some(IF seen.max > last_ts THEN seen.max ELSE last_ts))

\* C8: the events backfill publishes for a room are in non-decreasing
\* timestamp order on the queue, every one of them behind the Rooms event
\* that opens the queue, and the records persisted for the room follow the
\* order of publication.
C8_BackfillOrder ==
    /\ \A i \in backfilled : \A j \in backfilled :
          (i < j /\ evq[i].room_id = evq[j].room_id) => evq[i].timestamp <= evq[j].timestamp
    /\ \A i \in backfilled : i > 1 /\ evq[1].type = "Rooms"
    /\ \A r \in RoomIds :
          /\ IsSubsequence([i \in DOMAIN hist[RoomKey(r)] |-> hist[RoomKey(r)][i].event_id[1]],
                           PublishedIds(r))
          /\ anchor[r] # None =>
                /\ IsSubsequence([i \in DOMAIN StoredSince(r) |-> StoredSince(r)[i].event_id[1]],
                                 PublishedIds(r))
                /\ \A i \in DOMAIN StoredSince(r) : \A j \in DOMAIN StoredSince(r) :
                      i < j => StoredSince(r)[i].timestamp <= StoredSince(r)[j].timestamp

\* two events of different timestamps published for a room and both stored
C8_Witness ==
    \E i \in backfilled : \E j \in backfilled :
        /\ i < j
        /\ evq[i].room_id = evq[j].room_id
        /\ evq[i].timestamp < evq[j].timestamp
        /\ Len(StoredSince(evq[i].room_id)) = 2

DonePositions == {i \in DOMAIN evq : evq[i].type = "BackfillDone"}

\* C9: BackfillDone is published exactly once by the time start_sync goes
\* on to the live handlers, never before backfill has returned, and behind
\* every event backfill publishes, on every path through backfill.
C9_BackfillDoneOnce ==
    /\ Cardinality(DonePositions) = (IF pc = "live" THEN 1 ELSE 0)
    /\ \A d \in DonePositions : \A i \in backfilled : i < d
    /\ pc = "live" => collected = << >>
    /\ pc \in {"backfill_done", "live"} => ~Paging

\* start-up is over: an event was published whose store failed, and
\* BackfillDone is the last event on the queue
C9_Witness ==
    /\ pc = "live"
    /\ backfilled # {}
    /\ \E r \in RoomIds : Len(hist[RoomKey(r)]) < Len(PublishedIds(r))
    /\ evq[Len(evq)] = BackfillDone

\* start-up is over without the messages directory: no room was backfilled
C9_UnavailableWitness ==
    /\ pc = "live"
    /\ Len(joined) > 0
    /\ idx = 1
    /\ backfilled = {}
    /\ \A r \in RoomIds : anchor[r] = None

(* ---------------------------------------------------------------------- *)
(* Properties of the UI loop                                               *)
(* ---------------------------------------------------------------------- *)
\* C10: the UI calls notify_send for no event it processes before it has
\* processed BackfillDone: notifications_ready is false at start, true
\* exactly once BackfillDone has been processed, and never reverts.
C10_NotificationGate ==
    /\ [](app.notifications_ready = uiDone)
    /\ [](~uiDone => notified = 0)
    /\ [][app.notifications_ready => app'.notifications_ready]_vars

\* a message of another user for a room that is not selected has been
\* processed before BackfillDone, and BackfillDone after it
C10_Witness ==
    /\ uiDone
    /\ app.notifications_ready
    /\ notified = 0
    /\ uiSteps = 3
    /\ Len(app.rooms) = 2
    /\ R1 \in DOMAIN app.unread_counts
    /\ app.unread_counts[R1] = 1
    /\ \E i \in DOMAIN app.messages_by_room[R1] :
          /\ app.messages_by_room[R1][i].item = "Message"
          /\ app.messages_by_room[R1][i].name = "b"

\* what C11 requires for an event: BackfillDone processed earlier, the room
\* of the event not the selected one, the sender not the user the UI was
\* started for
MustNotify(evt) ==
    /\ uiDone
    /\ selected_room_id(app) # Some(evt.room_id)
    /\ app.own_user_id # Some(evt.sender)

\* C11: for every Message or Attachment event the UI processes, notify_send
\* is called (once) if and only if BackfillDone has been processed earlier,
\* the room of the event is not the selected room and the sender is not the
\* logged-in user.
C11_NotifyIff ==
    [][/\ \A evt \in UiMessages : UiMessage(evt) =>
             (notified' = (IF MustNotify(evt) THEN notified + 1 ELSE notified))
       /\ \A evt \in UiAttachments : UiAttachment(evt) =>
             (notified' = (IF MustNotify(evt) THEN notified + 1 ELSE notified))]_vars

\* after BackfillDone one event was notified and another, of the user's own
\* or for the selected room, was not
C11_Witness ==
    /\ uiDone
    /\ uiSteps = 3
    /\ notified = 1
    /\ app.own_user_id # None

\* the unread counter the room list shows for a room
Unread(a, room_id) == Get(a.unread_counts, room_id, 0)

\* C12: over incoming events, Rooms updates and up/down selection changes,
\* the unread counter of a room never decreases while the room is not
\* selected, and it is 0 after the step in which the room becomes the
\* selected room.
C12_UnreadMonotone ==
    [][\A r \in RoomIds :
          /\ (selected_room_id(app) # Some(r) /\ selected_room_id(app') # Some(r))
                => Unread(app', r) >= Unread(app, r)
          /\ (selected_room_id(app) # Some(r) /\ selected_room_id(app') = Some(r))
                => Unread(app', r) = 0]_vars

\* the second room was moved to after a message for it had been counted
\* unread, and a message for the first room has been counted since
C12_Witness ==
    /\ app.selected = 1
    /\ selected_room_id(app) = Some(R1)
    /\ Len(app.messages_by_room[R1]) > 0
    /\ Unread(app, R1) = 0
    /\ Unread(app, R2) >= 1

\* C13: between two events taken from the queue, and so whenever the queue
\* has been drained, the selected room has unread counter 0 and a last-seen
\* timestamp that is at least its last-message timestamp.
C13_SelectedRoomRead ==
    \A r \in RoomIds :
        selected_room_id(app) = Some(r) =>
            /\ Unread(app, r) = 0
            /\ Get(app.last_seen_ts, r, 0) >= Get(app.last_message_ts, r, 0)

\* a message has arrived for the room that is selected
C13_Witness ==
    /\ selected_room_id(app) = Some(R2)
    /\ Len(app.messages_by_room[R2]) >= 2
    /\ app.last_message_ts[R2] > 0
    /\ app.last_seen_ts[R2] = app.last_message_ts[R2]
    /\ Unread(app, R2) = 0

(* ---------------------------------------------------------------------- *)
(* Device verification                                                     *)
(* ---------------------------------------------------------------------- *)
\* the SAS flows in progress: accepted by start_sas_flow, neither Done nor
\* Cancelled
ActiveSas == {s \in 1..MaxCommands : sass[s].accepted /\ sass[s].st \in {"started", "keys"}}

\* C14: at most one SAS verification is active at any time, also when
\* StartVerification is issued while an earlier flow is neither Done nor
\* Cancelled.
C14_OneSasActive == Cardinality(ActiveSas) <= 1

Kinds(events) == [i \in DOMAIN events |-> events[i].type]
Finished(r) == \E i \in DOMAIN published[r] :
                  published[r][i].type \in {"VerificationDone", "VerificationCancelled"}

\* C15: the slot no longer holds a SAS once VerificationDone or
\* VerificationCancelled was published for it, and ConfirmVerification and
\* CancelVerification leave the slot empty.
C15_SlotCleared ==
    /\ \A r \in DOMAIN reqs : Finished(r) => sas_state # Some(r)
    /\ \A i \in DOMAIN calls : calls[i].st \notin {"done", "cancelled"}

\* C16: a verification that went Ready, Transitioned(Sas), KeysExchanged,
\* ConfirmVerification, Done has published exactly one status for
\* Requesting, one status for Accepting, one VerificationEmojis and one
\* VerificationDone, in this order.
C16_EventSequence ==
    \A r \in DOMAIN reqs :
        (sass[r].st = "done" /\ reqs[r].st = "transitioned" /\ Quiet) =>
            Kinds(published[r]) = << "VerificationStatus", "VerificationStatus",
                                    "VerificationEmojis", "VerificationDone" >>

(* ---------------------------------------------------------------------- *)
(* The channels                                                            *)
(* ---------------------------------------------------------------------- *)
\* the numbers of the events of producer p in a sequence of events
NumbersOf(p, events) ==
    LET FromP(e) == e.from = p
        own == SelectSeq(events, FromP)
    IN  [i \in DOMAIN own |-> own[i].n]

UpTo(n) == [i \in 1..n |-> i]

\* C17: while both ends are alive the events of each producer are received
\* in the order sent and the commands are handled in the order sent, none
\* lost, none twice; a send is possible whatever the queue holds.
C17_InOrderDelivery ==
    /\ ui = "running" =>
          \A p \in Producers : NumbersOf(p, evtGot \o evt_q) = UpTo(evtSent[p])
    /\ \A p \in Producers : NumbersOf(p, evtGot) = UpTo(Len(NumbersOf(p, evtGot)))
    /\ (proto \in {"startup", "loop"} /\ runtime = "up") => cmdGot \o cmd_q = UpTo(cmdSent)
    /\ cmdGot = UpTo(Len(cmdGot))
    /\ \A p \in Producers : (Alive(p) /\ evtSent[p] < MaxSends) => ENABLED ProducerSend(p)
    /\ (ui = "running" /\ cmdSent < MaxCommands) => ENABLED UiSendCommand

C17_Witness ==
    /\ ui = "running"
    /\ runtime = "up"
    /\ Len(evtGot) = 2 * MaxSends
    /\ Len(cmdGot) = MaxCommands
    /\ evtGot[1].from = "start_sync"
    /\ evtGot[2].from = "handler"
    /\ evtGot[3].from = "start_sync"

\* C18: once the UI has returned, a send on the event channel leaves the
\* queue as it is and its task goes on; the command loop leaves its loop
\* only on an empty queue whose sender is gone, and no task ever fails on
\* a channel.
C18_DisconnectIsSilent ==
    [][/\ \A p \in Producers :
             (ui = "returned" /\ evtSent'[p] # evtSent[p]) =>
                 /\ evt_q' = evt_q
                 /\ Alive(p)'
       /\ (proto = "loop" /\ proto' # "loop" /\ runtime' = "up") =>
             /\ proto' = "await_sync"
             /\ ui = "returned"
             /\ cmd_q = << >>
       /\ proto' # "failed"
       /\ sync_task' # "failed"]_vars

C18_Witness ==
    /\ ui = "returned"
    /\ runtime = "up"
    /\ proto = "await_sync"
    /\ sync_task = "running"
    /\ evtSent["handler"] = MaxSends
    /\ Len(NumbersOf("handler", evtGot)) < MaxSends
    /\ Len(cmdGot) = cmdSent
    /\ cmdSent > 0

\* C19: once the user has quit, the command loop handles the commands
\* already queued and the task of start_sync finishes.
C19_ShutdownFinishes ==
    (ui = "returned") ~> (proto = "done" /\ Len(cmdGot) = cmdSent)

(* ---------------------------------------------------------------------- *)
(* The configuration                                                       *)
(* ---------------------------------------------------------------------- *)
\* C20: when decrypt_sessions returns an error, no account has had its
\* cleartext session populated by the call.
C20_AllOrNothing ==
    (cfgRes # None /\ ~cfgRes[1].ok) =>
        \A i \in DOMAIN cfgAccounts : cfgAccounts[i].session = cfgIn[i].session

Decrypted == cfgStep \in {"decrypted", "encrypted", "updated"}
Populated(field) == field # None
SavedFields ==
    IF cfgSaved = None THEN {}
    ELSE UNION {{cfgSaved[1].accounts[i][j][1] : j \in DOMAIN cfgSaved[1].accounts[i]} :
                    i \in DOMAIN cfgSaved[1].accounts}

\* C21 as stated: after a successful decrypt_sessions exactly one of
\* session and session_encrypted is populated in every account, and what
\* save writes holds no cleartext session.
C21_ExactlyOne ==
    /\ Decrypted => \A i \in DOMAIN cfgAccounts :
            Populated(cfgAccounts[i].session) # Populated(cfgAccounts[i].session_encrypted)
    /\ "session" \notin SavedFields

\* C21: after a successful decrypt_sessions every account with an envelope
\* also holds its cleartext session; after encrypt_missing_sessions and
\* after a login every account with a session also holds an envelope; what
\* save writes holds the envelopes and no cleartext session.
C21_BothInMemoryEnvelopeOnDisk ==
    /\ Decrypted => \A i \in DOMAIN cfgAccounts :
            Populated(cfgAccounts[i].session_encrypted) => Populated(cfgAccounts[i].session)
    /\ cfgStep \in {"encrypted", "updated"} => \A i \in DOMAIN cfgAccounts :
            Populated(cfgAccounts[i].session) => Populated(cfgAccounts[i].session_encrypted)
    /\ "session" \notin SavedFields
    /\ cfgSaved # None =>
            /\ Len(cfgSaved[1].accounts) = Len(cfgAccounts)
            /\ \A i \in DOMAIN cfgAccounts :
                   Populated(cfgAccounts[i].session_encrypted) =>
                       cfgSaved[1].accounts[i] =
                           << << "session_encrypted", cfgAccounts[i].session_encrypted[1] >> >>

C21_Witness ==
    /\ cfgStep = "updated"
    /\ cfgSaved # None
    /\ Len(cfgAccounts) = 2
    /\ Len(cfgIn) = 2
    /\ cfgIn[1].session = None
    /\ Populated(cfgAccounts[1].session)
    /\ cfgIn[2].session_encrypted = None
    /\ Populated(cfgAccounts[2].session_encrypted)

(* ---------------------------------------------------------------------- *)
(* The room list                                                           *)
(* ---------------------------------------------------------------------- *)
PublishedRoomInfos ==
    UNION {{evq[i].rooms[j] : j \in DOMAIN evq[i].rooms} : i \in {k \in DOMAIN evq : evq[k].type = "Rooms"}}

\* C22 as stated: in every published RoomInfo the inviter is populated if
\* and only if the state is Invited.
C22_InviterIffInvited ==
    \A info \in PublishedRoomInfos : (info.inviter # None) <=> (info.state = "Invited")

\* C22: in every published RoomInfo a Joined room carries no inviter, and
\* an Invited room carries one exactly when its invite details name an
\* inviter whose name is not empty.
C22_InviterOnlyIfInvited ==
    /\ \A info \in PublishedRoomInfos :
           /\ info.state = "Joined" => info.inviter = None
           /\ info.inviter # None => (info.state = "Invited" /\ info.inviter[1] # EmptyName)
    /\ evq # << >> =>
           LET infos == evq[Len(evq)].rooms
           IN  \A j \in DOMAIN infos :
                   infos[j].state = "Invited" =>
                       LET details == clientRooms[infos[j].room_id].details
                       IN  (infos[j].inviter # None) <=>
                               (details.ok /\ details.val # None /\ details.val # Some(EmptyName))

C22_Witness ==
    /\ Len(evq) >= 2
    /\ \E j \in DOMAIN evq[Len(evq)].rooms :
           evq[Len(evq)].rooms[j].state = "Invited" /\ evq[Len(evq)].rooms[j].inviter = None
    /\ \E j \in DOMAIN evq[Len(evq)].rooms :
           evq[Len(evq)].rooms[j].state = "Joined"
    /\ \E info \in PublishedRoomInfos : info.inviter = Some(BobName)


(* ---------------------------------------------------------------------- *)
(* Start of the UI loop                                                    *)
(* ---------------------------------------------------------------------- *)
\* the persisted records are known to the App under their rooms
Seeded ==
    \A pair \in persisted : \A i \in DOMAIN pair[2] :
        pair[2][i].event_id # None =>
            pair[2][i].event_id[1] \in Get(app.seen_event_ids, KeyToRoom(pair[1]), {})

\* C23: the history that load_all_messages returned is pushed into the App
\* before run_app applies the first event of the protocol task, however
\* early that task has sent it.
C23_SeededBeforeEvents == uiSteps > 0 => uiPc = "loop" /\ Seeded

\* the protocol task published and stored its first message before the UI
\* read that log; the UI has seeded it and then applied the event
C23_Witness ==
    /\ uiSteps >= 1
    /\ \E pair \in persisted : \E i \in DOMAIN pair[2] :
           pair[2][i].event_id = Some(evq[1].event_id)

\* C24: while run_app lists and reads the room logs, the protocol task has
\* neither published an event nor written to a log.
C24_ReadBeforeFirstEvent == uiPc \in {"list", "read"} => evq = << >>

(* ---------------------------------------------------------------------- *)
(* Backfill and the live handlers on the room logs                         *)
(* ---------------------------------------------------------------------- *)
\* the event ids of the records a room log holds
LogIds(key) == {LogOf(key)[j].event_id : j \in DOMAIN LogOf(key)}

\* C25: under any interleaving of backfill, live text handlers and live
\* attachment handlers suspended in their downloads, every record whose
\* append returned success is in the room log afterwards.
C25_NoLostUpdate ==
    \A key \in RoomKeys : \A i \in DOMAIN hist[key] : hist[key][i].event_id \in LogIds(key)

\* backfill and a live handler have appended to the log of a room while
\* another handler of that room waits for its download
C25_Witness ==
    \E h \in handlers :
        /\ h.stage = "download"
        /\ Len(hist[RoomKey(h.room_id)]) >= 2
        /\ \E i \in liveSent : evq[i].type = "Message" /\ evq[i].room_id = h.room_id

\* the positions in evq of the Message and Attachment events of backfill
\* and of the live handler
Posted == {i \in backfilled \cup liveSent : evq[i].type \in {"Message", "Attachment"}}

\* the handler that published evq[i] has not yet called the store
StorePending(i) ==
    \E h \in handlers : /\ h.stage = "store"
                         /\ h.room_id = evq[i].room_id
                         /\ h.item[1].event_id = evq[i].event_id

\* the record is the one stored for the published event
RecordOf(record, evt) ==
    /\ record.event_id = Some(evt.event_id)
    /\ record.timestamp = evt.timestamp
    /\ (record.attachment_path # None) = (evt.type = "Attachment")

\* C26 as stated: once the publisher of a Message or Attachment event has
\* gone past its store, the log of the room holds a record with the id and
\* the timestamp of the event.
C26_PublishedThenAppended ==
    \A i \in Posted :
        ~StorePending(i) =>
            \E j \in DOMAIN LogOf(RoomKey(evq[i].room_id)) :
                RecordOf(LogOf(RoomKey(evq[i].room_id))[j], evq[i])

\* C26: a record reaches a room log only after the Message or Attachment
\* event with its id and timestamp was published for that room; the store
\* follows the send, and a store that fails leaves the event without a
\* record.
C26_AppendedWasPublished ==
    /\ \A key \in RoomKeys : \A j \in DOMAIN LogOf(key) :
           \/ LogOf(key)[j] = SyncedRecord
           \/ \E i \in Posted : RoomKey(evq[i].room_id) = key /\ RecordOf(LogOf(key)[j], evq[i])
    /\ \A h \in handlers :
           h.stage = "store" =>
               \E i \in liveSent : evq[i] = BackfillEvent(h.room_id, h.item[1])

\* backfill and the live handler have each published an event and appended
\* its record, the live one an attachment
C26_Witness ==
    /\ \E i \in Posted \cap backfilled :
           \E j \in DOMAIN LogOf(RoomKey(evq[i].room_id)) :
               RecordOf(LogOf(RoomKey(evq[i].room_id))[j], evq[i])
    /\ \E i \in Posted \cap liveSent :
           /\ evq[i].type = "Attachment"
           /\ ~StorePending(i)
           /\ \E j \in DOMAIN LogOf(RoomKey(evq[i].room_id)) :
                  RecordOf(LogOf(RoomKey(evq[i].room_id))[j], evq[i])

\* BackfillDone stands in evq ahead of position i
AfterBackfillDone(i) == \E j \in 1..(i - 1) : evq[j] = BackfillDone

\* C27: every Message, Attachment or Receipt event published before
\* BackfillDone comes from backfill, and every event of the live message
\* and receipt handlers is published after BackfillDone.
C27_NoLiveBeforeBackfillDone ==
    \A i \in DOMAIN evq :
        /\ i \in liveSent => AfterBackfillDone(i)
        /\ (evq[i].type \in {"Message", "Attachment", "Receipt"} /\ ~AfterBackfillDone(i))
               => i \in backfilled

\* a backfill event, BackfillDone, then a live message and a live receipt
C27_Witness ==
    /\ \E i \in backfilled : ~AfterBackfillDone(i)
    /\ \E i \in liveSent : evq[i].type = "Receipt"
    /\ \E i \in liveSent : evq[i].type \in {"Message", "Attachment"}

\* the media messages whose download fails, and the Message that stands
\* for such a message
Undownloadable == {event \in LiveEvents : event.source /\ ~event.download}

Fallback(room_id, event) ==
    MessageEvent(room_id, event.event_id, event.sender,
                 "[" \o event.msgtype \o "] " \o attachment_name(event.body, event.msgtype),
                 event.origin_server_ts, extract_reply_to(event))

\* the log of the room holds the text record of the fallback
FallbackStored(room_id, event) ==
    \E j \in DOMAIN LogOf(RoomKey(room_id)) :
        LET record == LogOf(RoomKey(room_id))[j]
        IN  /\ record.event_id = Some(event.event_id)
            /\ record.body = Fallback(room_id, event).body
            /\ record.attachment_path = None

\* C28 as stated: an attachment whose download failed is published as the
\* text Message and, once its publisher is past the store, persisted as a
\* text record with its event id.
C28_FallbackPersisted ==
    \A event \in Undownloadable : \A i \in Posted :
        (evq[i].event_id = event.event_id /\ ~StorePending(i)) =>
            /\ evq[i] = Fallback(evq[i].room_id, event)
            /\ FallbackStored(evq[i].room_id, event)

\* C28: an attachment whose download fails is published as the text Message
\* "[<kind>] <name>" by the live handler and by backfill, never as an
\* Attachment and never dropped; the record stored for it is a text record
\* with the original event id, and once it is in the log a later append of
\* that event id leaves the log as it is.
C28_FallbackPublished ==
    \A event \in Undownloadable :
        /\ \A i \in Posted : evq[i].event_id = event.event_id
               => evq[i] = Fallback(evq[i].room_id, event)
        /\ \A i \in DOMAIN collected : collected[i].event_id = event.event_id
               => BackfillEvent(joined[idx], collected[i]) = Fallback(joined[idx], event)
        /\ \A call \in delivered :
               (call.event = event /\ call.room_id = R1) =>
                   \/ Invocation(call, "download", None) \in handlers
                   \/ \E i \in liveSent : evq[i] = Fallback(R1, event)
        /\ \A key \in RoomKeys : \A j \in DOMAIN LogOf(key) :
               LogOf(key)[j].event_id = Some(event.event_id) =>
                   /\ FallbackStored(KeyToRoom(key), event)
                   /\ store_message_encrypted(dirs, files, writer[key], KeyToRoom(key),
                                              event.origin_server_ts, event.sender,
                                              Fallback(KeyToRoom(key), event).body,
                                              Some(event.event_id), None, None, TRUE, TRUE).files
                          = files

\* backfill and the live handler have both met the attachment whose
\* download fails: both published the text Message, and the log holds one
\* text record for it
C28_Witness ==
    \E event \in Undownloadable :
        /\ \E i \in backfilled : evq[i] = Fallback(R1, event)
        /\ \E i \in liveSent : evq[i] = Fallback(R1, event) /\ ~StorePending(i)
        /\ FallbackStored(R1, event)
        /\ Cardinality({j \in DOMAIN LogOf(RoomKey(R1)) :
                            LogOf(RoomKey(R1))[j].event_id = Some(event.event_id)}) = 1

\* C29: a media message without a media source that the live handler was
\* called with in a joined room is published as the text Message
\* "[<kind>] <name>".
C29_NoSourceFallback ==
    \A call \in delivered :
        (/\ call.room_id = R1
         /\ call.event.msgtype \in {"image", "file", "video", "audio"}
         /\ ~call.event.source)
            => \E i \in liveSent : evq[i] = Fallback(R1, call.event)

\* the room had a log at the start of the run that the passphrase of the
\* run decrypts
HadStoredLatest(room_id) ==
    /\ RoomKey(room_id) \notin created
    /\ writer[RoomKey(room_id)] = RunPassphrase

\* C30: backfill asks for the history of a joined room, and publishes
\* Message and Attachment events for it, only if the room has a stored
\* latest timestamp; a room without a log file, or with a log whose latest
\* cannot be read, gets no request and no event.
C30_OnlyRoomsWithLatest ==
    /\ pc \in {"request", "examine", "sort", "emit"} => HadStoredLatest(joined[idx])
    /\ \A i \in backfilled : HadStoredLatest(evq[i].room_id)
    /\ \A room_id \in RoomIds : anchor[room_id] # None => HadStoredLatest(room_id)

\* backfill is over for two joined rooms: the one without a readable log
\* was passed over, the other was asked for and got an event
C30_Witness ==
    /\ pc = "live"
    /\ Len(joined) = 2
    /\ ~HadStoredLatest(joined[1])
    /\ anchor[joined[1]] = None
    /\ \E i \in backfilled : evq[i].room_id = joined[2]

(* ---------------------------------------------------------------------- *)
(* The UI's unread counters, seen event ids and day separators             *)
(* ---------------------------------------------------------------------- *)
\* the two maps agree on every room but room_id, absent entries included
SameElsewhere(before, after, room_id) ==
    \A r \in (DOMAIN before \cup DOMAIN after) \ {room_id} :
        /\ r \in DOMAIN before
        /\ r \in DOMAIN after
        /\ before[r] = after[r]

\* what C31 requires of the handling of an event for room evt.room_id
UnreadAccounted(evt) ==
    LET room_id == evt.room_id
        is_selected == selected_room_id(app) = Some(room_id)
        last_seen == Get(app.last_seen_ts, room_id, 0)
    IN  /\ (~is_selected /\ evt.timestamp > last_seen)
               => Unread(app', room_id) = Unread(app, room_id) + 1
        /\ (~is_selected /\ evt.timestamp <= last_seen)
               => Unread(app', room_id) = Unread(app, room_id)
        /\ is_selected
               => /\ Unread(app', room_id) = 0
                  /\ Get(app'.last_seen_ts, room_id, 0) = Get(app'.last_message_ts, room_id, 0)
        /\ SameElsewhere(app.unread_counts, app'.unread_counts, room_id)
        /\ SameElsewhere(app.last_seen_ts, app'.last_seen_ts, room_id)

\* C31: an incoming Message or Attachment event for room R with timestamp
\* t adds exactly 1 to unread(R) if R is not selected and t > last-seen(R),
\* leaves unread(R) as it is if R is not selected and t <= last-seen(R),
\* and leaves last-seen(R) = last-message(R) and unread(R) = 0 if R is
\* selected; the counters and last-seen values of the other rooms stay.
C31_UnreadAccounting ==
    [][/\ \A evt \in UiMessages : UiMessage(evt) => UnreadAccounted(evt)
       /\ \A evt \in UiAttachments : UiAttachment(evt) => UnreadAccounted(evt)]_vars

\* a room that was read up to timestamp 2 and left has since received a
\* message of timestamp 1, which was not counted
C31_Witness ==
    \E r \in RoomIds :
        /\ selected_room_id(app) # Some(r)
        /\ selected_room_id(app) # None
        /\ Get(app.last_seen_ts, r, 0) = 2
        /\ Get(app.last_message_ts, r, 0) = 1
        /\ Unread(app, r) = 0

\* the message and attachment entries of the list of a room
Entries(a, room_id) ==
    SelectSeq(Get(a.messages_by_room, room_id, << >>), LAMBDA it : it.item # "Separator")

\* what the pushes keep for a room
Pushed(a, room_id) ==
    << Get(a.messages_by_room, room_id, << >>), Get(a.last_date_by_room, room_id, ""),
       Get(a.last_message_ts, room_id, 0) >>

\* the event the loop of run_app takes next has an id the room has seen
NextIsDuplicate ==
    /\ uiSteps < Len(evq)
    /\ evq[uiSteps + 1].event_id \in Get(app.seen_event_ids, evq[uiSteps + 1].room_id, {})

\* C32: after any seeded records and incoming events, all with event ids,
\* the list of a room holds one entry per event id the room has seen, and an
\* event whose id the room has seen leaves the list, the last-date marker
\* and the last-message timestamp of the room as they are.
C32_OneEntryPerEventId ==
    /\ [](\A r \in RoomIds : Len(Entries(app, r)) = Cardinality(Get(app.seen_event_ids, r, {})))
    /\ [][(NextIsDuplicate /\ uiSteps' = uiSteps + 1)
             => \A r \in RoomIds : Pushed(app', r) = Pushed(app, r)]_vars

\* an attachment that was seeded from the log of its room has also come as
\* an event, and the list holds it once
C32_Witness ==
    /\ uiSteps >= 1
    /\ evq[1].type = "Attachment"
    /\ \E pair \in persisted : \E i \in DOMAIN pair[2] :
           pair[2][i].event_id = Some(evq[1].event_id)
    /\ Len(SelectSeq(Entries(app, evq[1].room_id), LAMBDA it : it.item = "Attachment")) = 1

\* the room of the event has seen its event id
IsDuplicate(evt) == evt.event_id \in Get(app.seen_event_ids, evt.room_id, {})

\* C33: a Message or Attachment event whose event id the room has already
\* seen does not raise the unread counter of the room and is not notified.
C33_DuplicateIsSilent ==
    [][/\ \A evt \in UiMessages : (UiMessage(evt) /\ IsDuplicate(evt)) =>
             (Unread(app', evt.room_id) <= Unread(app, evt.room_id) /\ notified' = notified)
       /\ \A evt \in UiAttachments : (UiAttachment(evt) /\ IsDuplicate(evt)) =>
             (Unread(app', evt.room_id) <= Unread(app, evt.room_id) /\ notified' = notified)]_vars

\* the list of a room, and the date of the nearest separator at or before
\* position n of a list ("" if there is none)
ListOf(a, room_id) == Get(a.messages_by_room, room_id, << >>)

RECURSIVE DateAt(_, _)
DateAt(list, n) ==
    IF n = 0 THEN ""
    ELSE IF list[n].item = "Separator" THEN list[n].date
    ELSE DateAt(list, n - 1)

\* the shape of a list: it starts with a separator and ends with an entry,
\* a separator is followed by an entry, and the last-date marker is the
\* date of the last separator
WellSeparated(a, room_id) ==
    LET list == ListOf(a, room_id)
    IN  /\ list # << >> => list[1].item = "Separator" /\ list[Len(list)].item # "Separator"
        /\ \A i \in 1..(Len(list) - 1) :
               ~(list[i].item = "Separator" /\ list[i + 1].item = "Separator")
        /\ Get(a.last_date_by_room, room_id, "") = DateAt(list, Len(list))

\* what C34 requires of the handling of an event that is not a duplicate
SeparatorRule(evt) ==
    LET before == ListOf(app, evt.room_id)
        after == ListOf(app', evt.room_id)
        date == format_date(evt.timestamp)
    IN  IF IsDuplicate(evt) THEN after = before
        ELSE /\ after[Len(after)].item # "Separator"
             /\ DateAt(after, Len(after)) = date
             /\ IF Get(app.last_date_by_room, evt.room_id, "") # date
                THEN /\ Len(after) = Len(before) + 2
                     /\ SubSeq(after, 1, Len(before)) = before
                     /\ after[Len(before) + 1] = [item |-> "Separator", date |-> date]
                ELSE /\ Len(after) = Len(before) + 1
                     /\ SubSeq(after, 1, Len(before)) = before

\* C34: in the list of every room each entry has a separator before it, the
\* nearest one carrying the local date of the entry, no two separators are
\* adjacent, and a separator is pushed exactly when the date of the incoming
\* message differs from the last-date marker of the room.
C34_DaySeparators ==
    /\ [](\A r \in RoomIds : WellSeparated(app, r))
    /\ [][/\ \A evt \in UiMessages : UiMessage(evt) => SeparatorRule(evt)
          /\ \A evt \in UiAttachments : UiAttachment(evt) => SeparatorRule(evt)]_vars

\* a room holds a message and an attachment of one day behind one separator
C34_Witness ==
    \E r \in RoomIds :
        /\ Len(ListOf(app, r)) = 3
        /\ ListOf(app, r)[1].item = "Separator"
        /\ ListOf(app, r)[2].item = "Message"
        /\ ListOf(app, r)[3].item = "Attachment"

(* ---------------------------------------------------------------------- *)
(* Terminal events of a verification                                       *)
(* ---------------------------------------------------------------------- *)
\* the terminal events published for request r by its watcher and by the
\* watchers of its SAS
Terminals(r) ==
    SelectSeq(published[r], LAMBDA evt : evt.type \in {"VerificationDone", "VerificationCancelled"})

\* C35: a verification started by StartVerification publishes at most one
\* terminal event, VerificationDone or VerificationCancelled, its request
\* watcher and its SAS watchers taken together.
C35_OneTerminalEvent == \A r \in 1..MaxCommands : Len(Terminals(r)) <= 1
\* the Receipt events of one event id among the published ones
ReceiptsFor(out, event_id) ==
    Cardinality({i \in DOMAIN out : out[i] = ReceiptEvent(R1, event_id)})

\* the event id has a Read receipt of a user other than the logged-in one
ReadByOther(ev, event_id) ==
    \E k \in DOMAIN ev.content :
        /\ ev.content[k].event_id = event_id
        /\ ev.content[k].read # None
        /\ \E u \in DOMAIN ev.content[k].read[1] :
               ev.own_user # Some(ev.content[k].read[1][u])

\* C36: for a receipt event in a Joined room exactly one Receipt event is
\* published for each event id whose Read receipts include a user other than
\* the logged-in user and none for any other event id; a receipt event in a
\* room that is not Joined publishes nothing
C36_OneReceiptPerReadEvent ==
    rcOut # None =>
        LET out == rcOut[1]
        IN  /\ \A i \in ReceiptIds :
                   ReceiptsFor(out, ReceiptId(i)) =
                       IF rcIn.state = "Joined" /\ ReadByOther(rcIn, ReceiptId(i))
                       THEN 1 ELSE 0
            /\ \A k \in DOMAIN out : \E i \in ReceiptIds : out[k] = ReceiptEvent(R1, ReceiptId(i))
            /\ rcIn.state # "Joined" => out = << >>

\* a Joined room's receipt event with one event id read by two other users and
\* the logged-in user, and one event id read by the logged-in user alone
C36_Witness ==
    /\ rcOut # None
    /\ rcIn.state = "Joined"
    /\ rcIn.own_user = Some(OwnUser)
    /\ Len(rcIn.content) = 2
    /\ rcIn.content[1].read = Some(ReceiptUsers)
    /\ rcIn.content[2].read = Some(<< OwnUser >>)
    /\ rcOut[1] = << ReceiptEvent(R1, ReceiptId(1)) >>
\* the room id or the user id of the command parses
Parses(cmd) ==
    CASE cmd.type = "JoinRoom" -> RoomOrAliasId_parse(cmd.target).ok
      [] cmd.type = "CreateDirect" -> UserId_parse(cmd.target).ok
      [] OTHER -> RoomId_parse(cmd.target).ok

\* C37: a command whose room id or user id fails to parse causes no protocol
\* call and publishes no event, and the loop is ready for the next command
\* afterwards; a command that parses causes at most one protocol call
C37_ParseFailureDropped ==
    /\ [](cmd_q # << >> => ENABLED (\E outcome \in Outcomes, readOk \in BOOLEAN :
                                       CommandLoop(outcome, readOk)))
    /\ [][\A outcome \in Outcomes, readOk \in BOOLEAN :
            CommandLoop(outcome, readOk) =>
                /\ ~Parses(Head(cmd_q)) => calls' = calls /\ evq' = evq
                /\ Len(calls') <= Len(calls) + 1
                /\ cmd_q' = Tail(cmd_q)]_vars

\* a command with a bad room id was dropped and the command after it made its
\* one call
C37_Witness ==
    /\ cmdGot = << Command("SendMessage", BadRoomId), Command("LeaveRoom", R1) >>
    /\ calls = << Call("leave", R1) >>
    /\ Len(evq) = 1
\* C38: for every room id, the id the UI seeds a persisted log under (the
\* directory name with '_' replaced by ':') is the room id the records were
\* stored under (whose directory name is the room id with ':' replaced by
\* '_')
C38_RoomKeyRoundTrips ==
    rkSeed # None => rkSeed[1] = rkRoom
\* C39: when the user logs in again for the account chosen at startup (index
\* = active, defaulting to 0, clamped to the last account), the number of
\* account records is unchanged, the active index afterwards designates the
\* chosen account, and that record holds the new session; checked for an
\* active index that is absent or a valid position
C39_LoginKeepsAccount ==
    [][\A session \in Sessions, seed \in RngSeeds :
          (/\ Login(session, seed)
           /\ cfgAccounts # << >>
           /\ cfgActive = None \/ cfgActive[1] < Len(cfgAccounts))
          => LET chosen == startup_index(cfgAccounts, cfgActive)
             IN  /\ Len(cfgAccounts') = Len(cfgAccounts)
                 /\ cfgActive' = Some(chosen)
                 /\ cfgAccounts'[chosen + 1] =
                        encrypt_account_session([cfgAccounts[chosen + 1] EXCEPT !.session = Some(session)],
                                                cfgPass, seed)]_vars
\* C40: after any sequence of Rooms events, incoming messages and Up, Down,
\* Alt+Up and Alt+Down key presses, the selected index is less than the number
\* of rooms whenever the room list is not empty, and the message selection is
\* absent or an index into the selected room's message list
C40_SelectionValid ==
    /\ app.rooms # << >> => app.selected < Len(app.rooms)
    /\ app.message_selected # None =>
           /\ current_messages(app) # None
           /\ app.message_selected[1] < Len(current_messages(app)[1])

\* the second of two rooms is selected and the message selection is on the
\* last entry of its list, a day separator and two messages
C40_Witness ==
    /\ Len(app.rooms) = 2
    /\ app.selected = 1
    /\ current_messages(app) # None
    /\ Len(current_messages(app)[1]) = 3
    /\ app.message_selected = Some(2)
====
